---------------------------- MODULE Spec2Model ----------------------------
(***************************************************************************)
(* NoobiOS task overlay engine: the overlay store, the merger, the         *)
(* suggestion payload validator, the safety classifier and the op applier  *)
(* of src/app.js and the suggestion engine (src/unnamed/part_000).         *)
(*                                                                         *)
(* JavaScript values are tagged records, so that typeof, truthiness and    *)
(* property access are computed as the engine computes them.  Objects      *)
(* held in the overlay (items, patches) are kept as their property maps    *)
(* (functions from property names to values).                              *)
(***************************************************************************)
EXTENDS Integers, Sequences, FiniteSets, TLC

VARIABLES
    base,              \* state.base: NoBase until tasks.json is loaded
    bootPc,            \* boot(): "loading", "loaded" or "failed"
    overlays,          \* state.overlays
    merged,            \* state.merged: NoMerged until the first mergeData
    stored,            \* localStorage[STORAGE_KEY]: Absent or the saved record
    pendingAiPayload,  \* state.pendingAiPayload: NoPayload or [summary, ops]
    inflight,          \* completion-service calls awaiting their response
    aiEnabled,         \* loadAiSettings().enabled
    toastMsg,          \* text of the last toast()
    idSeq,             \* number of temporary ids synthesized so far
    steps,             \* handlers run so far; also the wall clock
    probe,             \* the argument of a function under test (Null in the app)
    result             \* what the function returned for it (Null until called)

appVars == <<base, bootPc, overlays, merged, stored, pendingAiPayload, inflight,
             aiEnabled, toastMsg, idSeq, steps>>
vars == <<appVars, probe, result>>

---------------------------------------------------------------------------
(* Bounds of the model *)

MaxSteps == 3
MaxInflight == 1

---------------------------------------------------------------------------
(* JavaScript values *)

Undefined == [t |-> "undefined"]
Null == [t |-> "null"]
Str(s) == [t |-> "string", v |-> s]
Num(n) == [t |-> "number", n |-> n]
Bool(b) == [t |-> "boolean", b |-> b]
Obj(f) == [t |-> "object", f |-> f]
Arr(a) == [t |-> "array", a |-> a]

EmptyMap == [k \in {} |-> Null]

\* typeof v
TypeOf(v) ==
    IF v.t \in {"null", "object", "array"} THEN "object" ELSE v.t

\* !!v
Truthy(v) ==
    CASE v.t = "undefined" -> FALSE
      [] v.t = "null" -> FALSE
      [] v.t = "string" -> v.v # ""
      [] v.t = "number" -> v.n # 0
      [] v.t = "boolean" -> v.b
      [] OTHER -> TRUE

\* Array.isArray(v)
IsArray(v) == v.t = "array"

\* v.k for a value that is neither null nor undefined
Get(v, k) ==
    IF v.t = "object" /\ k \in DOMAIN v.f THEN v.f[k] ELSE Undefined

\* m.k for a property map
Prop(m, k) == IF k \in DOMAIN m THEN m[k] ELSE Undefined

\* a || b
OrElse(a, b) == IF Truthy(a) THEN a ELSE b

\* a ?? b
Coalesce(a, b) == IF a.t \in {"undefined", "null"} THEN b ELSE a

\* the own enumerable properties of v, as Object.keys and Object.assign see them
OwnProps(v) ==
    CASE v.t = "object" -> v.f
      [] v.t = "array" ->
            [k \in {ToString(i - 1) : i \in 1..Len(v.a)} |->
                v.a[(CHOOSE i \in 1..Len(v.a) : ToString(i - 1) = k)]]
      [] OTHER -> EmptyMap

\* { ...a, ...b } and Object.assign(a, b) on property maps
Assign(a, b) ==
    [k \in (DOMAIN a) \cup (DOMAIN b) |-> IF k \in DOMAIN b THEN b[k] ELSE a[k]]

\* s.startsWith(p)
StartsWith(s, p) == Len(s) >= Len(p) /\ SubSeq(s, 1, Len(p)) = p

\* the reserved prefix of temporary ids
IsTempId(s) == StartsWith(s, "temp_")

Range(s) == {s[i] : i \in 1..Len(s)}

\* JSON.parse(JSON.stringify(v)): properties holding undefined are dropped,
\* undefined array elements become null
RECURSIVE ToJson(_)
ToJson(v) ==
    CASE v.t = "object" ->
            Obj([k \in {j \in DOMAIN v.f : v.f[j].t # "undefined"} |-> ToJson(v.f[k])])
      [] v.t = "array" ->
            Arr([i \in 1..Len(v.a) |->
                    IF v.a[i].t = "undefined" THEN Null ELSE ToJson(v.a[i])])
      [] OTHER -> v

---------------------------------------------------------------------------
(* The base dataset (tasks.json) *)

NoBase == Null
NoMerged == Null
Absent == Null
NoPayload == Null

OVERLAYS_VERSION == 1

TaskT1 ==
    Obj([id |-> Str("t1"), title |-> Str("Draft report"),
         due_date |-> Str("2024-01-10"), priority |-> Num(2)])
\* an event that tasks.json already holds as completed
EventE1 ==
    Obj([id |-> Str("e1"), title |-> Str("Quarterly review"), type |-> Str("event"),
         start_date |-> Str("2024-01-12"), status |-> Str("completed")])
RuleR1 == Obj([id |-> Str("r1"), title |-> Str("Weekly sync"), frequency |-> Str("weekly")])

\* a dataset with one open task, one completed event and one recurrence rule
BaseFull ==
    Obj([tasks |-> Arr(<<TaskT1>>), events |-> Arr(<<EventE1>>),
         recurrence_rules |-> Arr(<<RuleR1>>)])
Bases == {BaseFull}

---------------------------------------------------------------------------
(* Overlays *)

\* new Date().toISOString() in the handler that runs as step n
IsoTime(n) == Str("T" \o ToString(n))

defaultOverlays(now) ==
    Obj([version |-> Num(OVERLAYS_VERSION),
         updated_at |-> now,
         deletions |-> Arr(<<>>),
         task_overrides |-> Obj(EmptyMap),
         new_tasks |-> Arr(<<>>),
         recurrence_overrides |-> Obj(EmptyMap),
         learning |-> Obj([completion_log |-> Arr(<<>>),
                           move_log |-> Arr(<<>>),
                           stats |-> Obj([moves |-> Num(0), completes |-> Num(0)])])])

\* ov with property k set to v
With(ov, k, v) == Obj(Assign(ov.f, [j \in {k} |-> v]))

\* saveOverlays: the overlay as stamped, and the record written to storage
Stamp(ov, now) == With(ov, "updated_at", now)
saveOverlays(ov, now) == ToJson(Stamp(ov, now))

---------------------------------------------------------------------------
(* Merge *)

\* overrides[id] for an id value
PatchOf(overrides, id) == Get(overrides, id.v)

\* (t) => overrides[t.id] ? { ...t, ...overrides[t.id] } : t
ApplyOverride(overrides, t) ==
    IF Truthy(PatchOf(overrides, Get(t, "id")))
    THEN Obj(Assign(t.f, OwnProps(PatchOf(overrides, Get(t, "id")))))
    ELSE t

\* a merger in which a patched base item survives its deletion
mergeData_patchedSurvive(b, ov) ==
    LET baseTasks == IF IsArray(Get(b, "tasks")) THEN Get(b, "tasks").a ELSE <<>>
        baseEvents == IF IsArray(Get(b, "events")) THEN Get(b, "events").a ELSE <<>>
        recRules == IF IsArray(Get(b, "recurrence_rules"))
                    THEN Get(b, "recurrence_rules").a ELSE <<>>
        deletions == Range(OrElse(Get(ov, "deletions"), Arr(<<>>)).a)
        overrides == OrElse(Get(ov, "task_overrides"), Obj(EmptyMap))
        newTasks == OrElse(Get(ov, "new_tasks"), Arr(<<>>)).a
        Kept(t) == Truthy(t) /\ Truthy(Get(t, "id")) /\ Get(t, "id") \notin deletions
        KeptBase(t) == /\ Truthy(t) /\ Truthy(Get(t, "id"))
                       /\ (Get(t, "id") \notin deletions
                            \/ Truthy(PatchOf(overrides, Get(t, "id"))))
        tasks == [i \in 1..Len(SelectSeq(baseTasks, KeptBase)) |->
                    ApplyOverride(overrides, SelectSeq(baseTasks, KeptBase)[i])]
        events == [i \in 1..Len(SelectSeq(baseEvents, KeptBase)) |->
                    ApplyOverride(overrides, SelectSeq(baseEvents, KeptBase)[i])]
        appended == SelectSeq(newTasks, Kept)
    IN  Obj(Assign(b.f, [tasks |-> Arr(tasks \o appended),
                         events |-> Arr(events),
                         recurrence_rules |-> Arr(recRules)]))

\* The view also carries __overlays, a reference to state.overlays itself; it
\* is the overlay variable and is not copied into the view here.
mergeData(b, ov) ==
    LET baseTasks == IF IsArray(Get(b, "tasks")) THEN Get(b, "tasks").a ELSE <<>>
        baseEvents == IF IsArray(Get(b, "events")) THEN Get(b, "events").a ELSE <<>>
        recRules == IF IsArray(Get(b, "recurrence_rules"))
                    THEN Get(b, "recurrence_rules").a ELSE <<>>
        deletions == Range(OrElse(Get(ov, "deletions"), Arr(<<>>)).a)
        overrides == OrElse(Get(ov, "task_overrides"), Obj(EmptyMap))
        newTasks == OrElse(Get(ov, "new_tasks"), Arr(<<>>)).a
        Kept(t) == Truthy(t) /\ Truthy(Get(t, "id")) /\ Get(t, "id") \notin deletions
        tasks == [i \in 1..Len(SelectSeq(baseTasks, Kept)) |->
                    ApplyOverride(overrides, SelectSeq(baseTasks, Kept)[i])]
        events == [i \in 1..Len(SelectSeq(baseEvents, Kept)) |->
                    ApplyOverride(overrides, SelectSeq(baseEvents, Kept)[i])]
        appended == SelectSeq(newTasks, Kept)
    IN  Obj(Assign(b.f, [tasks |-> Arr(tasks \o appended),
                         events |-> Arr(events),
                         recurrence_rules |-> Arr(recRules)]))

\* getStatus(t)
getStatus(ov, t) ==
    LET patch == OrElse(PatchOf(Get(ov, "task_overrides"), Get(t, "id")), Obj(EmptyMap))
        status == OrElse(Get(patch, "status"), OrElse(Get(t, "status"), Str("")))
    IN  IF status = Str("completed") THEN "completed" ELSE "open"

\* (merged.tasks || []).concat(merged.events || []), [] while nothing is merged
AllItems(m) ==
    IF m = NoMerged THEN <<>>
    ELSE OrElse(Get(m, "tasks"), Arr(<<>>)).a \o OrElse(Get(m, "events"), Arr(<<>>)).a

MergedTasks(m) == IF m = NoMerged THEN <<>> ELSE OrElse(Get(m, "tasks"), Arr(<<>>)).a

\* arr.find((x) => x.id === id)
FindById(items, id) ==
    IF \E i \in 1..Len(items) : Get(items[i], "id") = id
    THEN items[CHOOSE i \in 1..Len(items) :
                  /\ Get(items[i], "id") = id
                  /\ \A j \in 1..(i - 1) : Get(items[j], "id") # id]
    ELSE Undefined

---------------------------------------------------------------------------
(* Text helpers *)

\* String(v), as a template literal renders v (arrays of this model are
\* rendered by their length only where they are not empty)
JsString(v) ==
    CASE v.t = "undefined" -> "undefined"
      [] v.t = "null" -> "null"
      [] v.t = "string" -> v.v
      [] v.t = "number" -> ToString(v.n)
      [] v.t = "boolean" -> IF v.b THEN "true" ELSE "false"
      [] v.t = "array" -> IF v.a = <<>> THEN "" ELSE "[array]"
      [] OTHER -> "[object Object]"

\* safeText(s): (s ?? "").toString()
safeText(v) == Str(JsString(Coalesce(v, Str(""))))

LowerChar(c) ==
    CASE c = "A" -> "a" [] c = "B" -> "b" [] c = "C" -> "c" [] c = "D" -> "d"
      [] c = "E" -> "e" [] c = "F" -> "f" [] c = "G" -> "g" [] c = "H" -> "h"
      [] c = "I" -> "i" [] c = "J" -> "j" [] c = "K" -> "k" [] c = "L" -> "l"
      [] c = "M" -> "m" [] c = "N" -> "n" [] c = "O" -> "o" [] c = "P" -> "p"
      [] c = "Q" -> "q" [] c = "R" -> "r" [] c = "S" -> "s" [] c = "T" -> "t"
      [] c = "U" -> "u" [] c = "V" -> "v" [] c = "W" -> "w" [] c = "X" -> "x"
      [] c = "Y" -> "y" [] c = "Z" -> "z" [] OTHER -> c

\* s.toLowerCase()
RECURSIVE ToLowerCase(_)
ToLowerCase(s) ==
    IF Len(s) = 0 THEN ""
    ELSE LowerChar(SubSeq(s, 1, 1)) \o ToLowerCase(SubSeq(s, 2, Len(s)))

\* s.trim()
RECURSIVE Trim(_)
Trim(s) ==
    IF Len(s) = 0 THEN ""
    ELSE IF SubSeq(s, 1, 1) = " " THEN Trim(SubSeq(s, 2, Len(s)))
    ELSE IF SubSeq(s, Len(s), Len(s)) = " " THEN Trim(SubSeq(s, 1, Len(s) - 1))
    ELSE s

\* normalizeType(t) of app.js: the lowered, trimmed text, whatever it is
normalizeType(t) == Str(Trim(ToLowerCase(OrElse(t, Str("")).v)))

---------------------------------------------------------------------------
(* Overlay mutations *)

LOG_CAP == 400

\* a cut that keeps the oldest n entries
SliceLast_head(a, n) == IF Len(a) > n THEN SubSeq(a, 1, n) ELSE a

\* arr.slice(-n)
SliceLast(a, n) == IF Len(a) > n THEN SubSeq(a, Len(a) - n + 1, Len(a)) ELSE a

Overrides(ov) == Get(ov, "task_overrides")
DeletionsOf(ov) == Get(ov, "deletions").a
NewTasksOf(ov) == Get(ov, "new_tasks").a
Learning(ov) == Get(ov, "learning")
CompletionLog(ov) == Get(Learning(ov), "completion_log").a
Completes(ov) == Get(Get(Learning(ov), "stats"), "completes").n

\* task_overrides[id] = patch
SetPatch(ov, id, patch) == With(ov, "task_overrides", With(Overrides(ov), id.v, patch))

\* a patch write that replaces the stored patch instead of merging into it
AssignPatch_replace(ov, id, fields) == SetPatch(ov, id, Obj(fields))

\* ensurePatch(id): the overlay in which id has a patch
ensurePatch(ov, id) ==
    IF Truthy(PatchOf(Overrides(ov), id)) THEN ov ELSE SetPatch(ov, id, Obj(EmptyMap))

\* Object.assign(ensurePatch(id), fields)
AssignPatch(ov, id, fields) ==
    LET ov1 == ensurePatch(ov, id)
    IN  SetPatch(ov1, id, Obj(Assign(PatchOf(Overrides(ov1), id).f, fields)))

\* delete task_overrides[id]
DeletePatch(ov, id) ==
    With(ov, "task_overrides",
         Obj([k \in (DOMAIN Overrides(ov).f) \ {id.v} |-> Overrides(ov).f[k]]))

\* a completion log that forgets to count
logComplete_noStat(ov, id, completed, now) ==
    LET l == Learning(ov)
        entry == Obj([id |-> id, completed |-> Bool(completed), at |-> now])
        log1 == SliceLast(Append(Get(l, "completion_log").a, entry), LOG_CAP)
    IN  With(ov, "learning", With(l, "completion_log", Arr(log1)))

logComplete(ov, id, completed, now) ==
    LET l == Learning(ov)
        stats == Get(l, "stats")
        stats1 == With(stats, "completes", Num(Get(stats, "completes").n + 1))
        entry == Obj([id |-> id, completed |-> Bool(completed), at |-> now])
        log1 == SliceLast(Append(Get(l, "completion_log").a, entry), LOG_CAP)
    IN  With(ov, "learning", With(With(l, "stats", stats1), "completion_log", Arr(log1)))

logMove(ov, id, from, to, reason, now) ==
    LET l == Learning(ov)
        stats == Get(l, "stats")
        stats1 == With(stats, "moves", Num(Get(stats, "moves").n + 1))
        entry == Obj([id |-> id, from |-> from, to |-> to, reason |-> reason, at |-> now])
        log1 == SliceLast(Append(Get(l, "move_log").a, entry), LOG_CAP)
    IN  With(ov, "learning", With(With(l, "stats", stats1), "move_log", Arr(log1)))

\* a delete that pushes the tombstone without looking for it first
DeleteFromOverlay_alwaysPush(ov, id) ==
    LET NotIt(t) == Get(t, "id") # id
    IN  With(DeletePatch(With(ov, "deletions", Arr(Append(DeletionsOf(ov), id))), id),
             "new_tasks", Arr(SelectSeq(NewTasksOf(ov), NotIt)))

\* deletions.includes(id) || deletions.push(id); delete the patch; drop the new task
DeleteFromOverlay(ov, id) ==
    LET dels == IF id \in Range(DeletionsOf(ov)) THEN DeletionsOf(ov)
                ELSE Append(DeletionsOf(ov), id)
        NotIt(t) == Get(t, "id") # id
    IN  With(DeletePatch(With(ov, "deletions", Arr(dels)), id),
             "new_tasks", Arr(SelectSeq(NewTasksOf(ov), NotIt)))

\* `temp_${Date.now().toString(36)}_${Math.random()...}`: the n-th synthesized id
FreshTempId(n) == Str("temp_g" \o ToString(n))

---------------------------------------------------------------------------
(* OpApplier: applyOpsArray *)

\* the item an add op pushes to new_tasks
NewItem(id, fields) ==
    Obj([id |-> id,
         title |-> safeText(OrElse(Get(fields, "title"), Str("Untitled"))),
         type |-> OrElse(normalizeType(Get(fields, "type")), Str("task")),
         pillar |-> Coalesce(Get(fields, "pillar"), Null),
         owner_id |-> Coalesce(Get(fields, "owner_id"), Null),
         start_date |-> Coalesce(Get(fields, "start_date"), Null),
         due_date |-> Coalesce(Get(fields, "due_date"), Null),
         priority |-> Coalesce(Get(fields, "priority"), Num(2)),
         notes |-> safeText(OrElse(Get(fields, "notes"), Str(""))),
         subtasks |-> IF IsArray(Get(fields, "subtasks"))
                      THEN Get(fields, "subtasks") ELSE Undefined,
         estimated_minutes |-> Coalesce(Get(fields, "estimated_minutes"), Undefined),
         energy |-> Coalesce(Get(fields, "energy"), Undefined)])

\* new_tasks.push(item)
PushNewTask(ov, item) == With(ov, "new_tasks", Arr(Append(NewTasksOf(ov), item)))

\* an add that keeps whatever id the op carries
ApplyAdd_keepId(st, o, now) ==
    LET fields == OrElse(Get(o, "fields"), Obj(EmptyMap))
    IN  [st EXCEPT !.ov = PushNewTask(st.ov, NewItem(Get(o, "id"), fields))]

\* One pass of the loop body.  st = [ov, seq]: the overlay and the number of
\* ids synthesized so far.
ApplyAdd(st, o, now) ==
    LET keep == Truthy(Get(o, "id")) /\ IsTempId(Get(o, "id").v)
        id == IF keep THEN Get(o, "id") ELSE FreshTempId(st.seq + 1)
        fields == OrElse(Get(o, "fields"), Obj(EmptyMap))
    IN  [ov |-> PushNewTask(st.ov, NewItem(id, fields)),
         seq |-> IF keep THEN st.seq ELSE st.seq + 1]

\* an update in which the fields the patch already holds win
ApplyUpdate_keepFirst(st, o, now) ==
    LET ov1 == ensurePatch(st.ov, Get(o, "id"))
        fields == OwnProps(OrElse(Get(o, "fields"), Obj(EmptyMap)))
    IN  [st EXCEPT !.ov = SetPatch(ov1, Get(o, "id"),
                                   Obj(Assign(fields, PatchOf(Overrides(ov1), Get(o, "id")).f)))]

\* an update that is dropped when its id is in deletions
ApplyUpdate_skipDeleted(st, o, now) ==
    IF Get(o, "id") \in Range(DeletionsOf(st.ov)) THEN st
    ELSE [st EXCEPT !.ov = AssignPatch(st.ov, Get(o, "id"),
                                       OwnProps(OrElse(Get(o, "fields"), Obj(EmptyMap))))]

ApplyUpdate(st, o, now) ==
    [st EXCEPT !.ov = AssignPatch(st.ov, Get(o, "id"),
                                  OwnProps(OrElse(Get(o, "fields"), Obj(EmptyMap))))]

ApplyComplete(st, o, now) ==
    [st EXCEPT !.ov =
        logComplete(AssignPatch(st.ov, Get(o, "id"),
                                [status |-> Str("completed"), completed_at |-> now]),
                    Get(o, "id"), TRUE, now)]

ApplyUndoComplete(st, o, now) ==
    [st EXCEPT !.ov =
        logComplete(AssignPatch(st.ov, Get(o, "id"),
                                [status |-> Str("open"), completed_at |-> Null]),
                    Get(o, "id"), FALSE, now)]

ApplyDelete(st, o, now) ==
    [st EXCEPT !.ov = DeleteFromOverlay(st.ov, Get(o, "id"))]

ApplyOp(st, o, now) ==
    CASE Get(o, "op") = Str("add") -> ApplyAdd(st, o, now)
      [] Get(o, "op") = Str("update") -> ApplyUpdate(st, o, now)
      [] Get(o, "op") = Str("complete") -> ApplyComplete(st, o, now)
      [] Get(o, "op") = Str("undo_complete") -> ApplyUndoComplete(st, o, now)
      [] Get(o, "op") = Str("delete") -> ApplyDelete(st, o, now)
      [] OTHER -> st

\* for (const o of ops) { ... }
RECURSIVE ApplyOps(_, _, _)
ApplyOps(st, ops, now) ==
    IF ops = <<>> THEN st ELSE ApplyOps(ApplyOp(st, Head(ops), now), Tail(ops), now)

---------------------------------------------------------------------------
(* PayloadValidator: validatePayload *)

AllowedOps == {"add", "update", "complete", "undo_complete", "delete"}

\* a verdict that does not look at fields
ValidateOp_noFieldsCheck(op) ==
    IF ~Truthy(op) \/ TypeOf(op) # "object" THEN "Bad op object"
    ELSE IF ~(Get(op, "op").t = "string" /\ Get(op, "op").v \in AllowedOps)
    THEN "Unsupported op: " \o JsString(Get(op, "op"))
    ELSE IF ~Truthy(Get(op, "id")) \/ TypeOf(Get(op, "id")) # "string"
    THEN "Op missing id"
    ELSE "ok"

\* the verdict on one op: "ok" or the error text
ValidateOp(op) ==
    IF ~Truthy(op) \/ TypeOf(op) # "object" THEN "Bad op object"
    ELSE IF ~(Get(op, "op").t = "string" /\ Get(op, "op").v \in AllowedOps)
    THEN "Unsupported op: " \o JsString(Get(op, "op"))
    ELSE IF ~Truthy(Get(op, "id")) \/ TypeOf(Get(op, "id")) # "string"
    THEN "Op missing id"
    ELSE IF /\ Get(op, "op").v \in {"add", "update"}
            /\ (~Truthy(Get(op, "fields")) \/ TypeOf(Get(op, "fields")) # "object")
    THEN "add/update must include fields{}"
    ELSE "ok"

\* a loop that returns after its first pass
ValidateOps_firstOnly(ops) ==
    IF ops = <<>> THEN "ok" ELSE ValidateOp(Head(ops))

\* for (const op of payload.ops) { ... }: the first error, or "ok"
RECURSIVE ValidateOps(_)
ValidateOps(ops) ==
    IF ops = <<>> THEN "ok"
    ELSE IF ValidateOp(Head(ops)) # "ok" THEN ValidateOp(Head(ops))
    ELSE ValidateOps(Tail(ops))

validatePayload(payload) ==
    IF ~Truthy(payload) \/ TypeOf(payload) # "object" THEN "Not an object"
    ELSE IF ~IsArray(Get(payload, "ops")) THEN "Missing ops[]"
    ELSE ValidateOps(Get(payload, "ops").a)

---------------------------------------------------------------------------
(* SafetyClassifier: splitAiOpsForAutoApply *)

safeFieldsAllow ==
    {"title", "notes", "pillar", "owner_id", "priority", "type",
     "estimated_minutes", "energy"}

\* a policy that lets updates of temporary ids through
Bucket_noTempCheck(op) ==
    IF ~Truthy(op) \/ TypeOf(op) # "object" THEN "skip"
    ELSE IF Get(op, "op") # Str("update") THEN "review"
    ELSE IF TypeOf(Get(op, "id")) # "string" THEN "review"
    ELSE LET keys == DOMAIN OwnProps(OrElse(Get(op, "fields"), Obj(EmptyMap)))
         IN  IF "start_date" \in keys \/ "due_date" \in keys \/ "subtasks" \in keys
             THEN "review"
             ELSE IF ~(\A k \in keys : k \in safeFieldsAllow) THEN "review"
             ELSE "auto"

\* a policy that looks at the op kind and the id, and not at the fields
Bucket_updatesAuto(op) ==
    IF ~Truthy(op) \/ TypeOf(op) # "object" THEN "skip"
    ELSE IF Get(op, "op") # Str("update") THEN "review"
    ELSE IF TypeOf(Get(op, "id")) # "string" \/ IsTempId(Get(op, "id").v) THEN "review"
    ELSE "auto"

\* the bucket of one op: "skip", "review" or "auto"
Bucket(op) ==
    IF ~Truthy(op) \/ TypeOf(op) # "object" THEN "skip"
    ELSE IF Get(op, "op") # Str("update") THEN "review"
    ELSE IF TypeOf(Get(op, "id")) # "string" \/ IsTempId(Get(op, "id").v) THEN "review"
    ELSE LET keys == DOMAIN OwnProps(OrElse(Get(op, "fields"), Obj(EmptyMap)))
         IN  IF "start_date" \in keys \/ "due_date" \in keys \/ "subtasks" \in keys
             THEN "review"
             ELSE IF ~(\A k \in keys : k \in safeFieldsAllow) THEN "review"
             ELSE "auto"

\* for (const op of ops) { ... autoOps.push(op) / reviewOps.push(op) }
RECURSIVE SplitLoop(_, _)
SplitLoop(ops, acc) ==
    IF ops = <<>> THEN acc
    ELSE SplitLoop(Tail(ops),
                   CASE Bucket(Head(ops)) = "auto" ->
                            [acc EXCEPT !.autoOps = Append(@, Head(ops))]
                     [] Bucket(Head(ops)) = "review" ->
                            [acc EXCEPT !.reviewOps = Append(@, Head(ops))]
                     [] OTHER -> acc)

splitAiOpsForAutoApply(payload) ==
    LET ops == IF payload.t \notin {"null", "undefined"} /\ IsArray(Get(payload, "ops"))
               THEN Get(payload, "ops").a ELSE <<>>
    IN  SplitLoop(ops, [autoOps |-> <<>>, reviewOps |-> <<>>])

---------------------------------------------------------------------------
(* The completion service and the responses it may give *)

OpOn(kind, id) == Obj([op |-> Str(kind), id |-> Str(id)])
OpWith(kind, id, fields) == Obj([op |-> Str(kind), id |-> Str(id), fields |-> Obj(fields)])

UpdTitle == OpWith("update", "t1", [title |-> Str("Draft Q1 report")])
UpdPriority == OpWith("update", "t1", [priority |-> Num(1)])
UpdBoth == OpWith("update", "t1", [title |-> Str("Report"), priority |-> Num(3)])
UpdDue == OpWith("update", "t1", [due_date |-> Str("2024-02-01")])
UpdTemp == OpWith("update", "temp_g1", [title |-> Str("Y")])
AddTemp == OpWith("add", "temp_a", [title |-> Str("Call bank")])
CompleteT1 == OpOn("complete", "t1")
UndoE1 == OpOn("undo_complete", "e1")
DeleteT1 == OpOn("delete", "t1")
DeleteTemp == OpOn("delete", "temp_a")
\* an update that carries no fields
BadUpdate == OpOn("update", "t1")

AiOps == {UpdTitle, UpdPriority, UpdBoth, UpdDue, UpdTemp, AddTemp, CompleteT1, UndoE1,
          DeleteT1, BadUpdate}

\* the op lists of the payloads: none, each op alone, and the pairs in which
\* the pipeline treats the two ops differently or both touch one id
OpPairs ==
    {<<UpdPriority, UpdTitle>>, <<UpdBoth, UpdTitle>>, <<UpdTitle, UpdDue>>, <<UpdTitle, BadUpdate>>,
     <<DeleteT1, UpdTitle>>, <<CompleteT1, DeleteT1>>, <<AddTemp, AddTemp>>,
     <<DeleteTemp, AddTemp>>}
OpSeqs == {<<>>} \cup {<<o>> : o \in AiOps} \cup OpPairs

\* what tryParseJsonFromText makes of a response text: null when it holds no
\* parseable object
ParsedPayloads ==
    {Null, Obj([summary |-> Str("s")])}
        \cup {Obj([summary |-> Str("s"), ops |-> Arr(ops)]) : ops \in OpSeqs}

\* a failed call, or a text with what parses out of it
Responses == {[ok |-> FALSE, payload |-> Null]}
                 \cup {[ok |-> TRUE, payload |-> p] : p \in ParsedPayloads}

\* runOps: the payload, or the error thrown
runOps(resp) ==
    IF ~aiEnabled THEN [threw |-> TRUE, error |-> "AI disabled", payload |-> Null]
    ELSE IF ~resp.ok THEN [threw |-> TRUE, error |-> "service error", payload |-> Null]
    ELSE IF ~Truthy(resp.payload)
    THEN [threw |-> TRUE, error |-> "AI did not return valid JSON", payload |-> Null]
    ELSE IF validatePayload(resp.payload) # "ok"
    THEN [threw |-> TRUE, payload |-> Null,
          error |-> "AI payload invalid: " \o validatePayload(resp.payload)]
    ELSE [threw |-> FALSE, error |-> "", payload |-> resp.payload]

---------------------------------------------------------------------------
(* State *)

Now == IsoTime(steps + 1)

\* todayLocalISO()
Today == Str("2024-01-11")

\* the ids of the items on screen
ViewIds == {Get(AllItems(merged)[i], "id") : i \in 1..Len(AllItems(merged))}

\* titles typed into the quick-add and edit forms
QuickTitles == {"Buy milk"}
EditTitles == {"Edited"}
MoveReasons == {"edit_move_today", "longpress_today"}

\* The calls in flight.  A pending continuation reads nothing of its request
\* once the response is in, so the calls of one kind are counted.
InFlight(q) == q.refine + q.rebalance
Sent(q, kind) == [q EXCEPT ![kind] = @ + 1]
Resolved(q, kind) == [q EXCEPT ![kind] = @ - 1]

\* the tail of every mutating handler: saveOverlays, then mergeData, which
\* throws while state.base is null; okToast is shown when it did not
Commit(ov1, okToast) ==
    /\ overlays' = Stamp(ov1, Now)
    /\ stored' = ToJson(overlays')
    /\ merged' = IF base = NoBase THEN merged ELSE mergeData(base, overlays')
    /\ toastMsg' = IF base = NoBase THEN toastMsg ELSE okToast
    /\ steps' = steps + 1

Init ==
    /\ base = NoBase
    /\ bootPc = "loading"
    /\ overlays = defaultOverlays(IsoTime(0))
    /\ merged = NoMerged
    /\ stored = Absent
    /\ pendingAiPayload = NoPayload
    /\ inflight = [refine |-> 0, rebalance |-> 0]
    /\ aiEnabled \in BOOLEAN
    /\ toastMsg = ""
    /\ idSeq = 0
    /\ steps = 0
    /\ probe = Null
    /\ result = Null

\* boot(): tasks.json arrives
LoadBaseOk(b) ==
    /\ bootPc = "loading"
    /\ base' = b
    /\ bootPc' = "loaded"
    /\ merged' = mergeData(b, overlays)
    /\ UNCHANGED <<probe, result, overlays, stored, pendingAiPayload, inflight, aiEnabled, toastMsg,
                   idSeq, steps>>

\* boot(): the fetch fails
LoadBaseFail ==
    /\ bootPc = "loading"
    /\ bootPc' = "failed"
    /\ toastMsg' = "Could not load tasks.json"
    /\ UNCHANGED <<probe, result, base, overlays, merged, stored, pendingAiPayload, inflight,
                   aiEnabled, idSeq, steps>>

toggleComplete(id) ==
    /\ steps < MaxSteps
    /\ id \in ViewIds
    /\ LET item == FindById(AllItems(merged), id)
           nowDone == getStatus(overlays, item) # "completed"
           ov1 == AssignPatch(overlays, id,
                      [status |-> Str(IF nowDone THEN "completed" ELSE "open"),
                       completed_at |-> IF nowDone THEN Now ELSE Null])
       IN  Commit(logComplete(ov1, id, nowDone, Now),
                  IF nowDone THEN "Completed" ELSE "Undone")
    /\ UNCHANGED <<probe, result, base, bootPc, pendingAiPayload, inflight, aiEnabled, idSeq>>

deleteItem(id) ==
    /\ steps < MaxSteps
    /\ id \in ViewIds
    /\ Commit(DeleteFromOverlay(overlays, id), "Deleted (overlay)")
    /\ UNCHANGED <<probe, result, base, bootPc, pendingAiPayload, inflight, aiEnabled, idSeq>>

moveToToday(id, reason) ==
    /\ steps < MaxSteps
    /\ id \in ViewIds
    /\ LET ov1 == ensurePatch(overlays, id)
           patch == PatchOf(Overrides(ov1), id)
           before == Obj([start_date |-> Coalesce(Get(patch, "start_date"), Null),
                          due_date |-> Coalesce(Get(patch, "due_date"), Null)])
           to == [start_date |-> Today, due_date |-> Today]
       IN  Commit(logMove(AssignPatch(ov1, id, to), id, before, Obj(to), Str(reason), Now),
                  "Moved to Today")
    /\ UNCHANGED <<probe, result, base, bootPc, pendingAiPayload, inflight, aiEnabled, idSeq>>

\* the patch saveEdit reads from the edit form, which openEdit filled from item
\* and in which the user typed title
FormPatch(item, title) ==
    [title |-> Str(Trim(title)),
     notes |-> safeText(OrElse(OrElse(Get(item, "notes"), Str("")), Str(""))),
     start_date |-> OrElse(OrElse(Get(item, "start_date"), Str("")), Null),
     due_date |-> OrElse(OrElse(Get(item, "due_date"), Str("")), Null),
     type |-> OrElse(OrElse(normalizeType(Get(item, "type")), Str("")), Null),
     priority |-> IF Get(item, "priority").t = "number" THEN Get(item, "priority") ELSE Null,
     pillar |-> OrElse(Get(item, "pillar"), Null),
     owner_id |-> OrElse(Get(item, "owner_id"), Null)]

\* new_tasks[idx] = { ...new_tasks[idx], ...patch }
PatchNewTask(ov, id, patch) ==
    With(ov, "new_tasks",
         Arr([i \in 1..Len(NewTasksOf(ov)) |->
                 IF /\ Get(NewTasksOf(ov)[i], "id") = id
                    /\ \A j \in 1..(i - 1) : Get(NewTasksOf(ov)[j], "id") # id
                 THEN Obj(Assign(NewTasksOf(ov)[i].f, patch))
                 ELSE NewTasksOf(ov)[i]]))

saveEdit(id, title) ==
    /\ steps < MaxSteps
    /\ id \in ViewIds
    /\ LET patch == FormPatch(FindById(AllItems(merged), id), title)
           isNew == \E i \in 1..Len(NewTasksOf(overlays)) :
                        Get(NewTasksOf(overlays)[i], "id") = id
       IN  Commit(IF isNew THEN PatchNewTask(overlays, id, patch)
                  ELSE AssignPatch(overlays, id, patch),
                  "Saved")
    /\ UNCHANGED <<probe, result, base, bootPc, pendingAiPayload, inflight, aiEnabled, idSeq>>

\* the task saveQuickAdd builds from the form
QuickTask(id, title) ==
    Obj([id |-> id, title |-> Str(title), notes |-> Str(""), start_date |-> Null,
         due_date |-> Null, type |-> Str("task"), priority |-> Num(2),
         pillar |-> Null, owner_id |-> Null])

\* the synchronous head of aiRefineTaskById(id), run in the state the caller
\* left: the toast and whether a request goes out
RefineHead(id, mg, ov) ==
    IF ~aiEnabled THEN [toast |-> "Enable AI in More", sent |-> FALSE]
    ELSE IF ~Truthy(OrElse(FindById(MergedTasks(mg), id), FindById(NewTasksOf(ov), id)))
    THEN [toast |-> "", sent |-> FALSE]
    ELSE [toast |-> "AI refining", sent |-> TRUE]

saveQuickAdd(title, refine) ==
    /\ steps < MaxSteps
    /\ refine => InFlight(inflight) < MaxInflight
    /\ LET newId == FreshTempId(idSeq + 1)
           ov1 == PushNewTask(overlays, QuickTask(newId, Trim(title)))
       IN  /\ overlays' = Stamp(ov1, Now)
           /\ stored' = ToJson(overlays')
           /\ merged' = IF base = NoBase THEN merged ELSE mergeData(base, overlays')
           /\ steps' = steps + 1
           /\ idSeq' = idSeq + 1
           /\ IF base = NoBase
              THEN UNCHANGED <<toastMsg, inflight>>
              ELSE IF ~refine
              THEN toastMsg' = "Added" /\ UNCHANGED inflight
              ELSE LET h == RefineHead(newId, merged', overlays')
                   IN  /\ toastMsg' = IF h.toast = "" THEN "Added" ELSE h.toast
                       /\ inflight' = IF h.sent
                                      THEN Sent(inflight, "refine")
                                      ELSE inflight
    /\ UNCHANGED <<probe, result, base, bootPc, pendingAiPayload, aiEnabled>>

\* aiRefineTaskById(id) up to its first await
aiRefineTaskById(id) ==
    /\ id \in ViewIds
    /\ InFlight(inflight) < MaxInflight
    /\ LET h == RefineHead(id, merged, overlays)
       IN  /\ toastMsg' = IF h.toast = "" THEN toastMsg ELSE h.toast
           /\ inflight' = IF h.sent THEN Sent(inflight, "refine")
                          ELSE inflight
    /\ UNCHANGED <<probe, result, base, bootPc, overlays, merged, stored, pendingAiPayload, aiEnabled,
                   idSeq, steps>>

\* aiRebalanceToday() up to its first await
aiRebalanceToday ==
    /\ InFlight(inflight) < MaxInflight
    /\ IF ~aiEnabled
       THEN toastMsg' = "Enable AI in More" /\ UNCHANGED inflight
       ELSE /\ toastMsg' = "AI rebalancing"
            /\ inflight' = Sent(inflight, "rebalance")
    /\ UNCHANGED <<probe, result, base, bootPc, overlays, merged, stored, pendingAiPayload, aiEnabled,
                   idSeq, steps>>


\* "2 safe tweaks applied" / "1 change to review"
Plural(n, one, tail) == ToString(n) \o one \o (IF n = 1 THEN "" ELSE "s") \o tail

\* the summary aiRefineTaskById gives the review payload (its parts are joined
\* by a middle dot in the source, by a hyphen here)
ReviewSummary(payload, didAuto, nReview) ==
    LET bits == (IF didAuto # 0 THEN Plural(didAuto, " safe tweak", " applied") \o " - "
                 ELSE "")
                \o Plural(nReview, " change", " to review")
    IN  IF Truthy(Get(payload, "summary"))
        THEN Str(JsString(Get(payload, "summary")) \o " - " \o bits)
        ELSE Str(bits)

\* applyOpsArray(ops) for a non-empty ops: the loop, saveOverlays, mergeData
\* (which throws while state.base is null)
ApplyAndCommit(ops) ==
    LET st == ApplyOps([ov |-> overlays, seq |-> idSeq], ops, Now)
    IN  /\ overlays' = Stamp(st.ov, Now)
        /\ stored' = ToJson(overlays')
        /\ merged' = IF base = NoBase THEN merged ELSE mergeData(base, overlays')
        /\ idSeq' = st.seq

\* the continuation of aiRefineTaskById once one of its calls in flight
\* resolves with resp
RefineResolve(resp) ==
    /\ steps < MaxSteps
    /\ inflight.refine > 0
    /\ inflight' = Resolved(inflight, "refine")
    /\ steps' = steps + 1
    /\ LET r == runOps(resp)
           split == splitAiOpsForAutoApply(r.payload)
           didAuto == Len(split.autoOps)
       IN  IF r.threw
           THEN /\ toastMsg' = "AI error: " \o r.error
                /\ UNCHANGED <<overlays, stored, merged, idSeq, pendingAiPayload>>
           ELSE /\ IF split.autoOps # <<>>
                   THEN ApplyAndCommit(split.autoOps)
                   ELSE UNCHANGED <<overlays, stored, merged, idSeq>>
                /\ IF split.autoOps # <<>> /\ base = NoBase
                   THEN toastMsg' = "AI error: TypeError" /\ UNCHANGED pendingAiPayload
                   ELSE IF split.reviewOps # <<>>
                   THEN /\ pendingAiPayload' =
                              Obj([summary |-> ReviewSummary(r.payload, didAuto,
                                                             Len(split.reviewOps)),
                                   ops |-> Arr(split.reviewOps)])
                        /\ UNCHANGED toastMsg
                   ELSE /\ pendingAiPayload' = NoPayload
                        /\ toastMsg' = IF didAuto # 0 THEN "Refined" ELSE "No changes needed"
    /\ UNCHANGED <<probe, result, base, bootPc, aiEnabled>>

\* the continuation of aiRebalanceToday
RebalanceResolve(resp) ==
    /\ steps < MaxSteps
    /\ inflight.rebalance > 0
    /\ inflight' = Resolved(inflight, "rebalance")
    /\ steps' = steps + 1
    /\ LET r == runOps(resp)
       IN  IF r.threw
           THEN toastMsg' = "AI error: " \o r.error /\ UNCHANGED pendingAiPayload
           ELSE pendingAiPayload' = r.payload /\ UNCHANGED toastMsg
    /\ UNCHANGED <<probe, result, base, bootPc, overlays, merged, stored, aiEnabled, idSeq>>

\* btnAiApply, confirmed: applyAiOps(state.pendingAiPayload)
applyAiOps ==
    /\ steps < MaxSteps
    /\ pendingAiPayload # NoPayload
    /\ steps' = steps + 1
    /\ LET ops == OrElse(Get(pendingAiPayload, "ops"), Arr(<<>>)).a
       IN  IF ops = <<>>
           THEN /\ toastMsg' = "No ops to apply"
                /\ UNCHANGED <<overlays, stored, merged, idSeq, pendingAiPayload>>
           ELSE /\ ApplyAndCommit(ops)
                /\ IF base = NoBase
                   THEN UNCHANGED <<pendingAiPayload, toastMsg>>
                   ELSE /\ pendingAiPayload' = NoPayload
                        /\ toastMsg' = "Applied AI suggestions"
    /\ UNCHANGED <<probe, result, base, bootPc, inflight, aiEnabled>>

\* btnAiDiscard, pressed in the review sheet, which is open only while a
\* payload is pending
discardAi ==
    /\ steps < MaxSteps
    /\ pendingAiPayload # NoPayload
    /\ steps' = steps + 1
    /\ pendingAiPayload' = NoPayload
    /\ toastMsg' = "Discarded"
    /\ UNCHANGED <<probe, result, base, bootPc, overlays, merged, stored, inflight, aiEnabled, idSeq>>

\* resetOverlays(), confirmed
resetOverlays ==
    /\ steps < MaxSteps
    /\ Commit(defaultOverlays(Now), "Reset")
    /\ UNCHANGED <<probe, result, base, bootPc, pendingAiPayload, inflight, aiEnabled, idSeq>>

Next ==
    \/ \E b \in Bases : LoadBaseOk(b)
    \/ LoadBaseFail
    \/ \E id \in ViewIds : toggleComplete(id)
    \/ \E id \in ViewIds : deleteItem(id)
    \/ \E id \in ViewIds, reason \in MoveReasons : moveToToday(id, reason)
    \/ \E id \in ViewIds, title \in EditTitles : saveEdit(id, title)
    \/ \E title \in QuickTitles, refine \in BOOLEAN : saveQuickAdd(title, refine)
    \/ \E id \in ViewIds : aiRefineTaskById(id)
    \/ aiRebalanceToday
    \/ \E resp \in Responses : RefineResolve(resp)
    \/ \E resp \in Responses : RebalanceResolve(resp)
    \/ applyAiOps
    \/ discardAi
    \/ resetOverlays

Spec == Init /\ [][Next]_vars

---------------------------------------------------------------------------
(* The classifier and the validator on their own: the argument is drawn at  *)
(* the start and the function is called once.                              *)

MaxProbeOps == 2

\* the app before anything has happened
AppIdle ==
    /\ base = NoBase
    /\ bootPc = "loading"
    /\ overlays = defaultOverlays(IsoTime(0))
    /\ merged = NoMerged
    /\ stored = Absent
    /\ pendingAiPayload = NoPayload
    /\ inflight = [refine |-> 0, rebalance |-> 0]
    /\ aiEnabled = FALSE
    /\ toastMsg = ""
    /\ idSeq = 0
    /\ steps = 0

SeqsUpTo(S, n) == UNION {[1..k -> S] : k \in 0..n}

\* ids: a committed one, a temporary one, and two that only resemble one
ClassifyIds == {"t1", "temp_abc", "temp", "t_temp_1"}
ClassifyFields ==
    {[title |-> Str("Y")],
     [due_date |-> Str("2024-02-01")],
     [start_date |-> Str("2024-02-01")],
     [title |-> Str("Y"), due_date |-> Str("2024-02-01")],
     [title |-> Str("Y"), notes |-> Str("n")],
     [pillar |-> Str("P"), owner_id |-> Str("o"), priority |-> Num(1), type |-> Str("task"),
      estimated_minutes |-> Num(30), energy |-> Str("low")],
     [status |-> Str("completed")],
     [subtasks |-> Arr(<<Str("a")>>)],
     EmptyMap}
ClassifyOps ==
    {OpWith("update", id, f) : id \in ClassifyIds, f \in ClassifyFields}
        \cup {Obj([op |-> Str("update"), id |-> Str("t1"), fields |-> Arr(<<Str("x")>>)]),
              OpWith("add", "temp_abc", [title |-> Str("Y")]),
              OpOn("complete", "t1"), OpOn("undo_complete", "t1"), OpOn("delete", "t1")}
ClassifyInputs ==
    {Obj([summary |-> Str("s"), ops |-> Arr(ops)]) : ops \in SeqsUpTo(ClassifyOps, MaxProbeOps)}

InitClassify ==
    /\ AppIdle
    /\ probe \in {p \in ClassifyInputs : validatePayload(p) = "ok"}
    /\ result = Null

Classify ==
    /\ result = Null
    /\ result' = Obj([autoOps |-> Arr(splitAiOpsForAutoApply(probe).autoOps),
                      reviewOps |-> Arr(splitAiOpsForAutoApply(probe).reviewOps)])
    /\ UNCHANGED <<appVars, probe>>

SpecClassify == InitClassify /\ [][Classify]_vars

\* op candidates for the validator: sound ones of each kind, and ones that
\* fail one check, or two
ValidateOpCandidates ==
    {Null, Str("x"), Num(0), Arr(<<>>)}
        \cup {Obj([op |-> Str(k), id |-> Str("t1"), fields |-> f] ) :
                k \in {"add", "update"},
                f \in {Obj([title |-> Str("Y")]), Obj(EmptyMap), Arr(<<>>), Null, Str("x")}}
        \cup {Obj([op |-> Str(k), id |-> Str("t1")]) : k \in AllowedOps \cup {"rename"}}
        \cup {Obj([op |-> Str(k), id |-> id, fields |-> Obj(EmptyMap)]) :
                k \in {"add", "update", "delete"}, id \in {Str(""), Num(5), Null}}
        \cup {Obj([op |-> Str(k)]) : k \in {"complete", "undo_complete", "delete"}}
        \cup {Obj([id |-> Str("t1")]),
              Obj([op |-> Num(1), id |-> Str("t1")]),
              Obj([op |-> Str("update"), id |-> Str(""), fields |-> Null]),
              Obj([op |-> Str("rename"), id |-> Str("")])}
ValidateInputs ==
    {Null, Undefined, Str("{}"), Num(1), Bool(TRUE), Arr(<<>>),
     Obj([summary |-> Str("s")]),
     Obj([ops |-> Null]), Obj([ops |-> Str("x")]), Obj([ops |-> Obj(EmptyMap)])}
        \cup {Obj([summary |-> Str("s"), ops |-> Arr(ops)]) :
                ops \in SeqsUpTo(ValidateOpCandidates, MaxProbeOps)}

InitValidate ==
    /\ AppIdle
    /\ probe \in ValidateInputs
    /\ result = Null

Validate ==
    /\ result = Null
    /\ result' = Str(validatePayload(probe))
    /\ UNCHANGED <<appVars, probe>>

SpecValidate == InitValidate /\ [][Validate]_vars

---------------------------------------------------------------------------
(* Properties *)

\* the patch stored for id, as a property map (empty when there is none)
PatchMap(ov, id) ==
    IF Truthy(PatchOf(Overrides(ov), id)) THEN PatchOf(Overrides(ov), id).f ELSE EmptyMap

\* the ops of a review payload
OpsOf(p) == IF p = NoPayload THEN <<>> ELSE Get(p, "ops").a
PendingOps == OpsOf(pendingAiPayload)

Count(s, x) == Cardinality({i \in 1..Len(s) : s[i] = x})

\* The auto-apply policy as the specification words it.
PolicyAllowlist ==
    {"title", "notes", "pillar", "owner_id", "priority", "type",
     "estimated_minutes", "energy"}
PolicyReviewKeys == {"start_date", "due_date", "subtasks"}
FieldKeys(op) == DOMAIN OwnProps(Get(op, "fields"))
AutoEligible(op) ==
    /\ Get(op, "op") = Str("update")
    /\ Get(op, "id").t = "string"
    /\ ~IsTempId(Get(op, "id").v)
    /\ FieldKeys(op) \subseteq PolicyAllowlist
    /\ FieldKeys(op) \cap PolicyReviewKeys = {}
NotAutoEligible(op) == ~AutoEligible(op)

\* The validity of a payload as the specification words it.
IsObjectValue(v) == v.t \in {"object", "array"}
OpKindOk(o) ==
    Get(o, "op") \in {Str("add"), Str("update"), Str("complete"), Str("undo_complete"),
                      Str("delete")}
OpIdOk(o) == Get(o, "id").t = "string" /\ Get(o, "id").v # ""
OpFieldsOk(o) ==
    Get(o, "op") \in {Str("add"), Str("update")} => IsObjectValue(Get(o, "fields"))
OpWellFormed(o) == IsObjectValue(o) /\ OpKindOk(o) /\ OpIdOk(o) /\ OpFieldsOk(o)
PayloadWellFormed(p) ==
    /\ IsObjectValue(p)
    /\ IsArray(Get(p, "ops"))
    /\ \A i \in 1..Len(Get(p, "ops").a) : OpWellFormed(Get(p, "ops").a[i])
FirstFailingCheck(o) ==
    IF ~IsObjectValue(o) THEN "Bad op object"
    ELSE IF ~OpKindOk(o) THEN "Unsupported op: " \o JsString(Get(o, "op"))
    ELSE IF ~OpIdOk(o) THEN "Op missing id"
    ELSE "add/update must include fields{}"
ExpectedReason(p) ==
    IF ~IsObjectValue(p) THEN "Not an object"
    ELSE IF ~IsArray(Get(p, "ops")) THEN "Missing ops[]"
    ELSE LET ops == Get(p, "ops").a
             first == CHOOSE i \in 1..Len(ops) :
                         /\ ~OpWellFormed(ops[i])
                         /\ \A j \in 1..(i - 1) : OpWellFormed(ops[j])
         IN  FirstFailingCheck(ops[first])

\* a response from which no payload may be used
Failing(resp) ==
    ~resp.ok \/ resp.payload = Null \/ ~PayloadWellFormed(resp.payload)

---------------------------------------------------------------------------
DeletedNewTaskHidden ==
    /\ merged # NoMerged
    /\ Str("temp_a") \in Range(DeletionsOf(overlays))
    /\ \E i \in 1..Len(NewTasksOf(overlays)) :
          Get(NewTasksOf(overlays)[i], "id") = Str("temp_a")
    /\ Len(MergedTasks(merged)) = 1

---------------------------------------------------------------------------
\* C2 (patch override): whenever a single update {id, fields: {title: X}} for
\* an id shown in the merged view is applied, the view afterwards shows that
\* item with title X and every other field as it was before.
PatchOverride ==
    [][(/\ applyAiOps
        /\ base # NoBase
        /\ Len(PendingOps) = 1
        /\ Get(PendingOps[1], "op") = Str("update")
        /\ FieldKeys(PendingOps[1]) = {"title"}
        /\ Get(PendingOps[1], "id") \in ViewIds)
       => LET id == Get(PendingOps[1], "id")
              before == FindById(AllItems(merged), id)
              after == FindById(AllItems(merged'), id)
          IN  /\ after # Undefined
              /\ Get(after, "title") = Get(Get(PendingOps[1], "fields"), "title")
              /\ \A k \in (DOMAIN before.f) \ {"title"} : Get(after, k) = before.f[k]
              /\ DOMAIN after.f \subseteq (DOMAIN before.f) \cup {"title"}]_vars

\* the same, for the items of the base dataset only
PatchOverrideBase ==
    [][(/\ applyAiOps
        /\ base # NoBase
        /\ Len(PendingOps) = 1
        /\ Get(PendingOps[1], "op") = Str("update")
        /\ FieldKeys(PendingOps[1]) = {"title"}
        /\ Get(PendingOps[1], "id") \in ViewIds
        /\ ~IsTempId(Get(PendingOps[1], "id").v))
       => LET id == Get(PendingOps[1], "id")
              before == FindById(AllItems(merged), id)
              after == FindById(AllItems(merged'), id)
          IN  /\ after # Undefined
              /\ Get(after, "title") = Get(Get(PendingOps[1], "fields"), "title")
              /\ \A k \in (DOMAIN before.f) \ {"title"} : Get(after, k) = before.f[k]
              /\ DOMAIN after.f \subseteq (DOMAIN before.f) \cup {"title"}]_vars

---------------------------------------------------------------------------
\* C3 (classifier correctness): for every validated payload, autoOps is the
\* subsequence of ops that are updates of a non-temporary id whose field keys
\* all lie in the allowlist and include no date or subtask key, reviewOps is
\* the subsequence of all the other ops, both in the original order; so every
\* op is in exactly one of the two.
ClassifierCorrect ==
    result # Null =>
        /\ Get(result, "autoOps").a = SelectSeq(Get(probe, "ops").a, AutoEligible)
        /\ Get(result, "reviewOps").a = SelectSeq(Get(probe, "ops").a, NotAutoEligible)

\* an update of a temporary id is held for review, a title update of t1 is not
TempUpdateReviewed ==
    /\ result # Null
    /\ Get(probe, "ops").a = <<OpWith("update", "temp_abc", [title |-> Str("Y")]),
                               OpWith("update", "t1", [title |-> Str("Y")])>>
    /\ Get(result, "autoOps").a = <<OpWith("update", "t1", [title |-> Str("Y")])>>
    /\ Get(result, "reviewOps").a = <<OpWith("update", "temp_abc", [title |-> Str("Y")])>>

---------------------------------------------------------------------------
\* what differs between two patches, and an overlay change that touches
\* nothing but allowlisted keys of the patches of non-temporary ids
ChangedKeys(old, new) ==
    {k \in DOMAIN new : k \notin DOMAIN old \/ old[k] # new[k]}
        \cup ((DOMAIN old) \ (DOMAIN new))

OnlySafeChange(ov, ov2) ==
    /\ DeletionsOf(ov2) = DeletionsOf(ov)
    /\ NewTasksOf(ov2) = NewTasksOf(ov)
    /\ Learning(ov2) = Learning(ov)
    /\ Get(ov2, "recurrence_overrides") = Get(ov, "recurrence_overrides")
    /\ \A id \in (DOMAIN Overrides(ov).f) \cup (DOMAIN Overrides(ov2).f) :
          LET ch == ChangedKeys(PatchMap(ov, Str(id)), PatchMap(ov2, Str(id)))
          IN  /\ ch \subseteq PolicyAllowlist \ PolicyReviewKeys
              /\ id \in DOMAIN Overrides(ov).f => id \in DOMAIN Overrides(ov2).f
              /\ (ch # {} \/ id \notin DOMAIN Overrides(ov).f) => ~IsTempId(id)

\* C4 (suggestion governance): a response to a rebalance request leaves the
\* overlay, the stored record and the view as they were; a response to a
\* refine request changes nothing of the overlay but allowlisted keys of the
\* patches of non-temporary ids, and every op it leaves pending is one that
\* is not auto-appliable; discarding the pending payload changes nothing of
\* the overlay.  So an op that is not auto-appliable reaches the overlay only
\* in the step in which the user applies the pending payload.
SuggestionGovernance ==
    [][/\ inflight'.rebalance < inflight.rebalance
            => UNCHANGED <<overlays, stored, merged>>
       /\ inflight'.refine < inflight.refine
            => /\ OnlySafeChange(overlays, overlays')
               /\ pendingAiPayload' # pendingAiPayload
                    => \A i \in 1..Len(OpsOf(pendingAiPayload')) :
                          NotAutoEligible(OpsOf(pendingAiPayload')[i])
       /\ discardAi
            => /\ UNCHANGED <<overlays, stored, merged>>
               /\ pendingAiPayload' = NoPayload]_vars

\* a refine response has had its title update applied and its date update
\* held back: the date shown is still the old one
ReviewHeldBack ==
    /\ PendingOps = <<UpdDue>>
    /\ PatchMap(overlays, Str("t1")) = [title |-> Str("Draft Q1 report")]
    /\ Get(FindById(MergedTasks(merged), Str("t1")), "due_date") = Str("2024-01-10")
    /\ Get(FindById(MergedTasks(merged), Str("t1")), "title") = Str("Draft Q1 report")

---------------------------------------------------------------------------
\* C5 (payload validation): validatePayload answers ok exactly for the
\* payloads that are a non-null object whose ops is an array of non-null
\* objects with op among the five kinds, id a non-empty string and, for add
\* and update, fields a non-null object; otherwise its reason is that of the
\* first violating op in list order and of the first check that op fails.
PayloadValidation ==
    result # Null =>
        /\ result = Str("ok") <=> PayloadWellFormed(probe)
        /\ ~PayloadWellFormed(probe) => result = Str(ExpectedReason(probe))

\* a sound op, then one with an empty id and null fields: the id is reported
SecondOpFirstCheck ==
    /\ result = Str("Op missing id")
    /\ probe = Obj([summary |-> Str("s"),
                    ops |-> Arr(<<Obj([op |-> Str("update"), id |-> Str("t1"),
                                       fields |-> Obj([title |-> Str("Y")])]),
                                  Obj([op |-> Str("update"), id |-> Str(""),
                                       fields |-> Null])>>)])

---------------------------------------------------------------------------
\* C6 (a failed request mutates nothing): when a refine or rebalance request
\* resolves with a failed call, with no parsed object, or with a payload that
\* is not well-formed (be it only in its last op), the overlay, the stored
\* record, the merged view and the pending review payload stay as they were.
FailedRequestMutatesNothing ==
    [][\A resp \in Responses :
          (Failing(resp) /\ (RefineResolve(resp) \/ RebalanceResolve(resp)))
              => UNCHANGED <<overlays, stored, merged, pendingAiPayload>>]_vars

\* a payload whose update lacks fields has been refused and no patch exists
RejectedAndUntouched ==
    /\ toastMsg = "AI error: AI payload invalid: add/update must include fields{}"
    /\ merged # NoMerged
    /\ Overrides(overlays) = Obj(EmptyMap)
    /\ stored = Absent

---------------------------------------------------------------------------
\* the patch a sequence of updates of one id must leave: last writer wins
UpdatesFor(ops, id) ==
    /\ ops # <<>>
    /\ \A i \in 1..Len(ops) :
          /\ Get(ops[i], "op") = Str("update")
          /\ Get(ops[i], "id") = id
          /\ Get(ops[i], "fields").t = "object"

Writes(ops, k) == {i \in 1..Len(ops) : k \in FieldKeys(ops[i])}

LastWrite(ops, k) ==
    Get(ops[CHOOSE i \in Writes(ops, k) : \A j \in Writes(ops, k) : j <= i], "fields").f[k]

AccumulatedPatch(old, ops) ==
    [k \in (DOMAIN old) \cup UNION {FieldKeys(ops[i]) : i \in 1..Len(ops)} |->
        IF Writes(ops, k) # {} THEN LastWrite(ops, k) ELSE old[k]]

Accumulates(ops) ==
    /\ Truthy(PatchOf(Overrides(overlays'), Get(ops[1], "id")))
    /\ PatchMap(overlays', Get(ops[1], "id"))
          = AccumulatedPatch(PatchMap(overlays, Get(ops[1], "id")), ops)

\* C8 (update accumulation): when a batch of update ops for one id is applied
\* (by the user from the pending payload, or automatically from a refine
\* response), the patch of that id afterwards holds, for each key the batch
\* wrote, the value of the last op that wrote it, and every other key of the
\* patch as it was before the batch (none if there was no patch).
UpdateAccumulation ==
    [][/\ (/\ applyAiOps
           /\ PendingOps # <<>>
           /\ UpdatesFor(PendingOps, Get(PendingOps[1], "id")))
            => Accumulates(PendingOps)
       /\ \A resp \in Responses :
            (/\ ~Failing(resp)
             /\ RefineResolve(resp)
             /\ OpsOf(resp.payload) # <<>>
             /\ UpdatesFor(OpsOf(resp.payload), Get(OpsOf(resp.payload)[1], "id"))
             /\ \A i \in 1..Len(OpsOf(resp.payload)) : AutoEligible(OpsOf(resp.payload)[i]))
            => Accumulates(OpsOf(resp.payload))]_vars

\* priority 1, then the title: the patch of t1 holds both
PatchHoldsBoth ==
    /\ Truthy(PatchOf(Overrides(overlays), Str("t1")))
    /\ PatchMap(overlays, Str("t1"))
          = [priority |-> Num(1), title |-> Str("Draft Q1 report")]

---------------------------------------------------------------------------
\* what a delete of id leaves behind
DeletedClean(ov, id) ==
    /\ Count(DeletionsOf(ov), id) = 1
    /\ id.v \notin DOMAIN Overrides(ov).f
    /\ \A i \in 1..Len(NewTasksOf(ov)) : Get(NewTasksOf(ov)[i], "id") # id

\* C9 (delete effect and idempotence): right after a manual delete of id, or
\* after a batch whose last op is delete id, id is in deletions exactly once,
\* no patch is stored for id and no new task has that id; and a delete op
\* applied on its own where an earlier delete of id has left all this so
\* leaves deletions, task_overrides and new_tasks as they were.
DeleteEffect ==
    [][/\ \A id \in ViewIds : deleteItem(id) => DeletedClean(overlays', id)
       /\ (/\ applyAiOps
           /\ PendingOps # <<>>
           /\ Get(PendingOps[Len(PendingOps)], "op") = Str("delete"))
            => /\ DeletedClean(overlays', Get(PendingOps[Len(PendingOps)], "id"))
               /\ (/\ Len(PendingOps) = 1
                   /\ DeletedClean(overlays, Get(PendingOps[1], "id")))
                    => /\ DeletionsOf(overlays') = DeletionsOf(overlays)
                       /\ Overrides(overlays') = Overrides(overlays)
                       /\ NewTasksOf(overlays') = NewTasksOf(overlays)]_vars

\* t1 was completed and then deleted in one batch: the tombstone is there,
\* the patch the completion wrote is gone
DeletedAfterComplete ==
    /\ DeletedClean(overlays, Str("t1"))
    /\ Completes(overlays) = 1
    /\ toastMsg = "Applied AI suggestions"
    /\ MergedTasks(merged) = <<>>

\* a delete op is never applied to an id an earlier delete has cleaned
NoSecondDelete ==
    [][~(/\ applyAiOps
         /\ Len(PendingOps) = 1
         /\ Get(PendingOps[1], "op") = Str("delete")
         /\ DeletedClean(overlays, Get(PendingOps[1], "id")))]_vars

---------------------------------------------------------------------------
\* the status derived from the patch, or from the item where no patch sets it,
\* and what one transition does
StatusOf(ov, item) ==
    LET p == PatchMap(ov, Get(item, "id"))
        s == IF "status" \in DOMAIN p /\ Truthy(p["status"])
             THEN p["status"] ELSE Get(item, "status")
    IN  IF s = Str("completed") THEN "completed" ELSE "open"

Logged(ov, ov2, id, completed) ==
    /\ Len(CompletionLog(ov2)) = Len(CompletionLog(ov)) + 1
    /\ SubSeq(CompletionLog(ov2), 1, Len(CompletionLog(ov))) = CompletionLog(ov)
    /\ Get(CompletionLog(ov2)[Len(CompletionLog(ov2))], "id") = id
    /\ Get(CompletionLog(ov2)[Len(CompletionLog(ov2))], "completed") = Bool(completed)
    /\ Completes(ov2) = Completes(ov) + 1

Transition(id, toCompleted) ==
    /\ Prop(PatchMap(overlays', id), "status")
          = Str(IF toCompleted THEN "completed" ELSE "open")
    /\ IF toCompleted
       THEN Prop(PatchMap(overlays', id), "completed_at") = Now
       ELSE Prop(PatchMap(overlays', id), "completed_at") = Null
    /\ Logged(overlays, overlays', id, toCompleted)
    /\ FindById(AllItems(merged'), id) # Undefined
    /\ StatusOf(overlays', FindById(AllItems(merged'), id))
          = (IF toCompleted THEN "completed" ELSE "open")

\* C10 (status state machine): a manual toggle, or a complete op on an open
\* item, or an undo_complete op on a completed item (be it completed in the
\* base dataset), sets the status in the item's patch to the other of open
\* and completed, sets completed_at to a timestamp on completion and to null
\* on reopening, makes the derived status of the item that other status,
\* appends exactly one entry {id, completed} to the completion log and adds
\* one to stats.completes.
StatusStateMachine ==
    [][/\ \A id \in ViewIds :
            toggleComplete(id)
                => Transition(id, StatusOf(overlays, FindById(AllItems(merged), id)) = "open")
       /\ (/\ applyAiOps
           /\ Len(PendingOps) = 1
           /\ Get(PendingOps[1], "id") \in ViewIds
           /\ \/ /\ Get(PendingOps[1], "op") = Str("complete")
                 /\ StatusOf(overlays, FindById(AllItems(merged), Get(PendingOps[1], "id")))
                        = "open"
              \/ /\ Get(PendingOps[1], "op") = Str("undo_complete")
                 /\ StatusOf(overlays, FindById(AllItems(merged), Get(PendingOps[1], "id")))
                        = "completed")
            => Transition(Get(PendingOps[1], "id"),
                          Get(PendingOps[1], "op") = Str("complete"))]_vars

\* the event tasks.json holds as completed has been reopened by hand
BaseCompletedReopened ==
    /\ toastMsg = "Undone"
    /\ PatchMap(overlays, Str("e1")) = [status |-> Str("open"), completed_at |-> Null]
    /\ Completes(overlays) = 1
    /\ Len(CompletionLog(overlays)) = 1
    /\ Get(CompletionLog(overlays)[1], "completed") = Bool(FALSE)
    /\ StatusOf(overlays, FindById(AllItems(merged), Str("e1"))) = "open"

\* the same event reopened by an undo_complete op
BaseCompletedReopenedByOp ==
    /\ toastMsg = "Applied AI suggestions"
    /\ PatchMap(overlays, Str("e1")) = [status |-> Str("open"), completed_at |-> Null]
    /\ Completes(overlays) = 1
    /\ StatusOf(overlays, FindById(AllItems(merged), Str("e1"))) = "open"

---------------------------------------------------------------------------
(* The completion log on its own: t1 is toggled over and over, starting from *)
(* an empty overlay.  probe counts the events, result is the overlay.        *)

MaxEvents == 500

InitLog ==
    /\ AppIdle
    /\ probe = Num(0)
    /\ result = defaultOverlays(IsoTime(0))

LogEvent ==
    /\ probe.n < MaxEvents
    /\ probe' = Num(probe.n + 1)
    /\ result' = logComplete(result, Str("t1"), probe.n % 2 = 0, IsoTime(probe.n + 1))
    /\ UNCHANGED appVars

SpecLog == InitLog /\ [][LogEvent]_vars

\* C11 (audit bound): after n completion events on an empty overlay the
\* completion log holds min(n, 400) entries, and they are the last
\* min(n, 400) events in the order in which they happened; the counter
\* stats.completes is n.
AuditBound ==
    LET n == probe.n
        log == CompletionLog(result)
        len == IF n < 400 THEN n ELSE 400
    IN  /\ Len(log) = len
        /\ Len(log) <= 400
        /\ \A i \in 1..len :
              /\ Get(log[i], "at") = IsoTime(n - len + i)
              /\ Get(log[i], "id") = Str("t1")
              /\ Get(log[i], "completed") = Bool((n - len + i - 1) % 2 = 0)
        /\ Completes(result) = n

\* 500 events: the log holds events 101 to 500
FiveHundredEvents ==
    /\ probe = Num(500)
    /\ Len(CompletionLog(result)) = 400
    /\ Get(CompletionLog(result)[1], "at") = IsoTime(101)
    /\ Get(CompletionLog(result)[400], "at") = IsoTime(500)

\* the items that exist: those of tasks.json and those the overlay created
ExistingItems ==
    (IF base = NoBase THEN <<>>
     ELSE OrElse(Get(base, "tasks"), Arr(<<>>)).a \o OrElse(Get(base, "events"), Arr(<<>>)).a)
        \o NewTasksOf(overlays)

\* C12 (id uniqueness): no two items among base tasks, base events and
\* new_tasks share an id, whatever validated op batches and manual adds ran.
IdUniqueness ==
    \A i, j \in 1..Len(ExistingItems) :
        i # j => Get(ExistingItems[i], "id") # Get(ExistingItems[j], "id")

---------------------------------------------------------------------------
(* One add op on its own: probe is the op, result the overlay after          *)
(* applyOpsArray([probe]) ran on an empty overlay.                           *)

AddIds == {"temp_a", "t1", "x9"}
AddTitles == {Undefined, Str(""), Str("Call bank")}
AddTypes == {Undefined, Str(""), Str("task"), Str("Event"), Str(" meeting "), Str("TASK"),
             Str("banana")}
AddPriorities == {Undefined, Null, Num(0), Num(1)}
AddSubtasks == {Undefined, Arr(<<Str("step")>>)}

AddFields(title, type, priority, subtasks) ==
    Obj([title |-> title, type |-> type, priority |-> priority, subtasks |-> subtasks])

AddInputs ==
    {Obj([op |-> Str("add"), id |-> Str(id), fields |-> AddFields(ti, ty, pr, su)]) :
        id \in AddIds, ti \in AddTitles, ty \in AddTypes, pr \in AddPriorities,
        su \in AddSubtasks}

InitAdd ==
    /\ AppIdle
    /\ probe \in AddInputs
    /\ result = Null

AddOne ==
    /\ result = Null
    /\ result' = ApplyOps([ov |-> defaultOverlays(IsoTime(0)), seq |-> 0],
                          <<probe>>, IsoTime(1)).ov
    /\ UNCHANGED <<appVars, probe>>

SpecAdd == InitAdd /\ [][AddOne]_vars

\* the item the op appended, and the type the op asked for
AddedItem == NewTasksOf(result)[Len(NewTasksOf(result))]
AskedType == Get(Get(probe, "fields"), "type")
ItemTypes == {"task", "event", "meeting"}
RecognizedType(t) == t.t = "string" /\ Trim(ToLowerCase(t.v)) \in ItemTypes

\* C14 (add defaults): the item an add op appends has a type among task,
\* event and meeting, and an empty, missing or unrecognized fields.type is
\* stored as task; the title is the placeholder when fields.title is absent
\* and the priority is 2 when fields.priority is absent.
AddDefaults ==
    result # Null =>
        /\ Len(NewTasksOf(result)) = 1
        /\ Get(AddedItem, "type").t = "string"
        /\ Get(AddedItem, "type").v \in ItemTypes
        /\ ~RecognizedType(AskedType) => Get(AddedItem, "type") = Str("task")
        /\ Get(Get(probe, "fields"), "title") = Undefined
              => Get(AddedItem, "title") = Str("Untitled")
        /\ Get(Get(probe, "fields"), "priority") = Undefined
              => Get(AddedItem, "priority") = Num(2)

\* what the code does keep of C14: the defaults of title and priority, and
\* the type whenever fields.type is empty, missing or one of the three
AddDefaultsKnownTypes ==
    result # Null =>
        /\ Len(NewTasksOf(result)) = 1
        /\ RecognizedType(AskedType)
              => Get(AddedItem, "type") = Str(Trim(ToLowerCase(AskedType.v)))
        /\ ~Truthy(AskedType) => Get(AddedItem, "type") = Str("task")
        /\ Get(Get(probe, "fields"), "title") = Undefined
              => Get(AddedItem, "title") = Str("Untitled")
        /\ Get(Get(probe, "fields"), "priority") = Undefined
              => Get(AddedItem, "priority") = Num(2)

---------------------------------------------------------------------------
(* Reading an overlay: loadOverlays from storage, importOverlays from a file *)

\* What localStorage.getItem or file.text() hands over: nothing, a text that
\* JSON.parse rejects, or a text with the value it parses to.
NoText == [present |-> FALSE, parses |-> FALSE, value |-> Null]
BadText == [present |-> TRUE, parses |-> FALSE, value |-> Null]
JsonText(v) == [present |-> TRUE, parses |-> TRUE, value |-> v]

\* the properties { ...v } copies: those of an object, the elements of an
\* array and the characters of a string by index, none of anything else
SpreadProps(v) ==
    IF v.t = "string"
    THEN [k \in {ToString(i - 1) : i \in 1..Len(v.v)} |->
             Str(SubSeq(v.v, (CHOOSE i \in 1..Len(v.v) : ToString(i - 1) = k),
                             (CHOOSE i \in 1..Len(v.v) : ToString(i - 1) = k)))]
    ELSE OwnProps(v)

\* x && typeof x === "object" ? x : {}
ObjectOr(x, dflt) == IF Truthy(x) /\ TypeOf(x) = "object" THEN x ELSE dflt

loadOverlays(raw, now) ==
    IF ~raw.present \/ ~raw.parses THEN defaultOverlays(now)
    \* obj.deletions throws on null, and the catch returns the default
    ELSE IF raw.value.t = "null" THEN defaultOverlays(now)
    ELSE LET obj == raw.value
             dflt == defaultOverlays(now)
             learning == Get(obj, "learning")
         IN  Obj(Assign(Assign(dflt.f, SpreadProps(obj)),
                 [deletions |-> IF IsArray(Get(obj, "deletions"))
                                THEN Get(obj, "deletions") ELSE Arr(<<>>),
                  new_tasks |-> IF IsArray(Get(obj, "new_tasks"))
                                THEN Get(obj, "new_tasks") ELSE Arr(<<>>),
                  task_overrides |-> ObjectOr(Get(obj, "task_overrides"), Obj(EmptyMap)),
                  recurrence_overrides |->
                      ObjectOr(Get(obj, "recurrence_overrides"), Obj(EmptyMap)),
                  learning |->
                      IF Truthy(learning) /\ TypeOf(learning) = "object"
                      THEN Obj(Assign(Get(dflt, "learning").f, SpreadProps(learning)))
                      ELSE Get(dflt, "learning")]))

\* exportOverlays: the record JSON.stringify(state.overlays) writes to the file
exportOverlays(ov) == JsonText(ToJson(ov))

\* importOverlays up to saveOverlays: { ...defaultOverlays(), ...obj }, stamped
ImportedOverlay(obj, now) ==
    Stamp(Obj(Assign(defaultOverlays(now).f, SpreadProps(obj))), now)

\* the records a storage entry or an import file may hold, field by field;
\* Undefined stands for a field the record does not have
LoadDeletions == {Undefined, Null, Num(5), Arr(<<Str("t1")>>)}
LoadNewTasks == {Undefined, Str("x"), Arr(<<QuickTask(Str("temp_g1"), "Buy milk")>>)}
LoadOverrides == {Undefined, Num(1), Arr(<<>>), Obj([t1 |-> Obj([title |-> Str("Edited")])])}
LoadRecurrence == {Undefined, Str("no"), Obj([r1 |-> Obj([enabled |-> Bool(FALSE)])])}
LoadLearning ==
    {Undefined, Null, Num(3), Obj(EmptyMap),
     Obj([completion_log |-> Str("oops")]),
     Obj([completion_log |-> Arr(<<>>), move_log |-> Arr(<<>>), stats |-> Null]),
     Obj([completion_log |-> Arr(<<>>), move_log |-> Arr(<<>>),
          stats |-> Obj([moves |-> Str("1"), completes |-> Num(0)])]),
     Obj([completion_log |->
              Arr(<<Obj([id |-> Str("t1"), completed |-> Bool(TRUE), at |-> Str("T1")])>>),
          move_log |-> Arr(<<>>),
          stats |-> Obj([moves |-> Num(0), completes |-> Num(1)])])}

LoadRecords ==
    {ToJson(Obj([version |-> Num(OVERLAYS_VERSION), updated_at |-> Str("T0"),
                 deletions |-> d, new_tasks |-> n, task_overrides |-> o,
                 recurrence_overrides |-> r, learning |-> l])) :
        d \in LoadDeletions, n \in LoadNewTasks, o \in LoadOverrides,
        r \in LoadRecurrence, l \in LoadLearning}

LoadInputs ==
    {NoText, BadText}
        \cup {JsonText(v) : v \in {Null, Num(5), Bool(TRUE), Str("ab"), Arr(<<Num(1)>>),
                                   Obj(EmptyMap)}}
        \cup {JsonText(v) : v \in LoadRecords}

InitLoad ==
    /\ AppIdle
    /\ probe \in LoadInputs
    /\ result = Null

\* boot: state.overlays = loadOverlays()
Load ==
    /\ result = Null
    /\ result' = [by |-> "load", ov |-> loadOverlays(probe, IsoTime(1))]
    /\ UNCHANGED <<appVars, probe>>

\* the file picker's onchange with a text that parses
Import ==
    /\ result = Null
    /\ probe.present /\ probe.parses
    /\ result' = [by |-> "import", ov |-> ImportedOverlay(probe.value, IsoTime(1))]
    /\ UNCHANGED <<appVars, probe>>

SpecLoad == InitLoad /\ [][Load \/ Import]_vars

\* a value that maps keys to values (an array is let pass as one)
IsMapping(v) == Truthy(v) /\ TypeOf(v) = "object"

\* an overlay with every part of the scaffold in place
StructurallyComplete(ov) ==
    /\ IsArray(Get(ov, "deletions"))
    /\ IsArray(Get(ov, "new_tasks"))
    /\ IsMapping(Get(ov, "task_overrides"))
    /\ IsMapping(Get(ov, "recurrence_overrides"))
    /\ IsMapping(Get(ov, "learning"))
    /\ IsArray(Get(Get(ov, "learning"), "completion_log"))
    /\ IsArray(Get(Get(ov, "learning"), "move_log"))
    /\ Get(Get(ov, "learning"), "stats").t = "object"
    /\ Get(Get(Get(ov, "learning"), "stats"), "moves").t = "number"
    /\ Get(Get(Get(ov, "learning"), "stats"), "completes").t = "number"

Loaded == result # Null /\ result.by = "load"
Imported == result # Null /\ result.by = "import"

\* C17 (tolerant load): whatever storage holds, load() returns a structurally
\* complete overlay, and a valid deletions or new_tasks array of the record is
\* kept whatever the other fields hold.
TolerantLoad ==
    Loaded =>
        /\ StructurallyComplete(result.ov)
        /\ \A k \in {"deletions", "new_tasks"} :
              (probe.parses /\ IsArray(Get(probe.value, k)))
                  => Get(result.ov, k) = Get(probe.value, k)

\* what the code does keep of C17: the five top-level fields have the right
\* kind, and valid arrays are kept
TolerantLoadTopLevel ==
    Loaded =>
        /\ IsArray(Get(result.ov, "deletions"))
        /\ IsArray(Get(result.ov, "new_tasks"))
        /\ IsMapping(Get(result.ov, "task_overrides"))
        /\ IsMapping(Get(result.ov, "recurrence_overrides"))
        /\ IsMapping(Get(result.ov, "learning"))
        /\ \A k \in {"deletions", "new_tasks"} :
              (probe.parses /\ IsArray(Get(probe.value, k)))
                  => Get(result.ov, k) = Get(probe.value, k)

\* C20 (import normalizes): importing a parseable record yields the overlay
\* load() produces from that record (up to the stamp of the save), and that
\* overlay is structurally complete.
ImportNormalizes ==
    (Imported /\ probe.value.t = "object") =>
        /\ result.ov = Stamp(loadOverlays(probe, IsoTime(1)), IsoTime(1))
        /\ StructurallyComplete(result.ov)

---------------------------------------------------------------------------
(* The whole store: the handlers of Spec with inbox capture, the recurrence  *)
(* toggle, import, and handlers whose localStorage.setItem throws.           *)

\* an add under the id of an item of tasks.json
AddPlain == OpWith("add", "t1", [title |-> Str("Plan trip")])

StoreOpSeqs ==
    {<<AddTemp, AddTemp>>, <<AddPlain>>, <<AddPlain, AddTemp>>, <<UpdTitle>>,
     <<CompleteT1, DeleteT1>>}
StoreResponses ==
    {[ok |-> FALSE, payload |-> Null]}
        \cup {[ok |-> TRUE, payload |-> Obj([summary |-> Str("s"), ops |-> Arr(ops)])] :
                 ops \in StoreOpSeqs}

\* the rules renderRecurring draws a toggle for
RuleIds ==
    IF merged = NoMerged \/ ~IsArray(Get(merged, "recurrence_rules")) THEN {}
    ELSE {Get(r, "id") : r \in Range(Get(merged, "recurrence_rules").a)}

\* recurrence_overrides?.[id]?.enabled ?? true
RuleEnabled(ov, id) ==
    Coalesce(Get(Get(Get(ov, "recurrence_overrides"), id.v), "enabled"), Bool(TRUE))

\* the click handler of a recurrence toggle: the override is written and the
\* overlay saved; state.merged is left as it is
toggleRecurrence(id) ==
    /\ steps < MaxSteps
    /\ id \in RuleIds
    /\ LET cur == Truthy(RuleEnabled(overlays, id))
           rec == OrElse(Get(overlays, "recurrence_overrides"), Obj(EmptyMap))
           ov1 == With(overlays, "recurrence_overrides",
                       With(rec, id.v, Obj([enabled |-> Bool(~cur)])))
       IN  /\ overlays' = Stamp(ov1, Now)
           /\ stored' = ToJson(overlays')
           /\ toastMsg' = IF ~cur THEN "Recurring enabled" ELSE "Recurring disabled"
           /\ steps' = steps + 1
    /\ UNCHANGED <<probe, result, base, bootPc, merged, pendingAiPayload, inflight, aiEnabled,
                   idSeq>>

\* btnInboxAdd with a non-empty text; refine is ai.autoRefine
inboxAdd(title, refine) ==
    /\ steps < MaxSteps
    /\ refine => InFlight(inflight) < MaxInflight
    /\ LET newId == FreshTempId(idSeq + 1)
           ov1 == PushNewTask(overlays, QuickTask(newId, Trim(title)))
       IN  /\ overlays' = Stamp(ov1, Now)
           /\ stored' = ToJson(overlays')
           /\ merged' = IF base = NoBase THEN merged ELSE mergeData(base, overlays')
           /\ steps' = steps + 1
           /\ idSeq' = idSeq + 1
           /\ IF base = NoBase
              THEN UNCHANGED <<toastMsg, inflight>>
              ELSE IF ~refine
              THEN toastMsg' = "Inbox captured" /\ UNCHANGED inflight
              ELSE LET h == RefineHead(newId, merged', overlays')
                   IN  /\ toastMsg' = IF h.toast = "" THEN "Inbox captured" ELSE h.toast
                       /\ inflight' = IF h.sent
                                      THEN Sent(inflight, "refine")
                                      ELSE inflight
    /\ UNCHANGED <<probe, result, base, bootPc, pendingAiPayload, aiEnabled>>

\* The files the user may pick: a text that does not parse, the file
\* exportOverlays wrote of the overlay as it is now, and a record written by
\* hand that holds deletions only.  Every record is well formed: mergeData and
\* the handlers are modelled on overlays whose fields have their kinds.
HandRecord == Obj([deletions |-> Arr(<<Str("t1")>>)])
ImportFiles == {BadText, exportOverlays(overlays), JsonText(HandRecord)}

\* the onchange handler of importOverlays; a throw of JSON.parse or of
\* mergeData (state.base is null) ends in the catch
importOverlays(txt) ==
    /\ steps < MaxSteps
    /\ steps' = steps + 1
    /\ IF ~txt.parses
       THEN /\ toastMsg' = "Invalid JSON"
            /\ UNCHANGED <<overlays, stored, merged>>
       ELSE /\ overlays' = ImportedOverlay(txt.value, Now)
            /\ stored' = ToJson(overlays')
            /\ merged' = IF base = NoBase THEN merged ELSE mergeData(base, overlays')
            /\ toastMsg' = IF base = NoBase THEN "Invalid JSON" ELSE "Imported overlays"
    /\ UNCHANGED <<probe, result, base, bootPc, pendingAiPayload, inflight, aiEnabled, idSeq>>

\* saveOverlays when setItem throws: updated_at is stamped, nothing is
\* written, and the throw leaves the handler before mergeData
WriteFails(ov1) ==
    /\ overlays' = Stamp(ov1, Now)
    /\ steps' = steps + 1
    /\ UNCHANGED <<stored, merged>>

deleteItemWriteFails(id) ==
    /\ steps < MaxSteps
    /\ id \in ViewIds
    /\ WriteFails(DeleteFromOverlay(overlays, id))
    /\ UNCHANGED <<probe, result, base, bootPc, pendingAiPayload, inflight, aiEnabled, idSeq,
                   toastMsg>>

applyAiOpsWriteFails ==
    /\ steps < MaxSteps
    /\ pendingAiPayload # NoPayload
    /\ OrElse(Get(pendingAiPayload, "ops"), Arr(<<>>)).a # <<>>
    /\ LET st == ApplyOps([ov |-> overlays, seq |-> idSeq],
                          Get(pendingAiPayload, "ops").a, Now)
       IN  WriteFails(st.ov) /\ idSeq' = st.seq
    /\ UNCHANGED <<probe, result, base, bootPc, pendingAiPayload, inflight, aiEnabled, toastMsg>>

importOverlaysWriteFails(txt) ==
    /\ steps < MaxSteps
    /\ txt.parses
    /\ WriteFails(ImportedOverlay(txt.value, Now))
    /\ toastMsg' = "Invalid JSON"
    /\ UNCHANGED <<probe, result, base, bootPc, pendingAiPayload, inflight, aiEnabled, idSeq>>

resetOverlaysWriteFails ==
    /\ steps < MaxSteps
    /\ WriteFails(defaultOverlays(Now))
    /\ UNCHANGED <<probe, result, base, bootPc, pendingAiPayload, inflight, aiEnabled, idSeq,
                   toastMsg>>

NextStore ==
    \/ \E b \in Bases : LoadBaseOk(b)
    \/ LoadBaseFail
    \/ \E id \in ViewIds : toggleComplete(id)
    \/ \E id \in ViewIds : deleteItem(id)
    \/ \E id \in ViewIds, reason \in MoveReasons : moveToToday(id, reason)
    \/ \E id \in ViewIds, title \in EditTitles : saveEdit(id, title)
    \/ \E title \in QuickTitles, refine \in BOOLEAN : saveQuickAdd(title, refine)
    \/ \E title \in QuickTitles, refine \in BOOLEAN : inboxAdd(title, refine)
    \/ \E id \in RuleIds : toggleRecurrence(id)
    \/ \E txt \in ImportFiles : importOverlays(txt)
    \/ \E id \in ViewIds : aiRefineTaskById(id)
    \/ aiRebalanceToday
    \/ \E resp \in StoreResponses : RefineResolve(resp)
    \/ \E resp \in StoreResponses : RebalanceResolve(resp)
    \/ applyAiOps
    \/ discardAi
    \/ resetOverlays
    \/ \E id \in ViewIds : deleteItemWriteFails(id)
    \/ applyAiOpsWriteFails
    \/ \E txt \in ImportFiles : importOverlaysWriteFails(txt)
    \/ resetOverlaysWriteFails

SpecStore == Init /\ [][NextStore]_vars

\* the id of the item at place j of news is right for the add op o: the op's
\* id when it carries the prefix, else a prefixed id no earlier item has
AddedIdOk(o, news, j) ==
    LET id == Get(news[j], "id")
    IN  IF IsTempId(Get(o, "id").v)
        THEN id = Get(o, "id")
        ELSE /\ IsTempId(id.v)
             /\ \A i \in 1..(j - 1) : Get(news[i], "id") # id

AllTempIds(news) == \A i \in 1..Len(news) : IsTempId(Get(news[i], "id").v)

\* a batch of add ops appended one item per op, in order
BatchAppended ==
    LET old == NewTasksOf(overlays)
        new == NewTasksOf(overlays')
    IN  (\A k \in 1..Len(PendingOps) : Get(PendingOps[k], "op") = Str("add")) =>
            /\ Len(new) = Len(old) + Len(PendingOps)
            /\ SubSeq(new, 1, Len(old)) = old
            /\ \A k \in 1..Len(PendingOps) : AddedIdOk(PendingOps[k], new, Len(old) + k)
            /\ AllTempIds(new)

\* a form appended one item under a fresh temporary id
FormAppended ==
    LET old == NewTasksOf(overlays)
        new == NewTasksOf(overlays')
    IN  /\ Len(new) = Len(old) + 1
        /\ SubSeq(new, 1, Len(old)) = old
        /\ IsTempId(Get(new[Len(new)], "id").v)
        /\ \A i \in 1..Len(old) : Get(old[i], "id") # Get(new[Len(new)], "id")
        /\ AllTempIds(new)

\* C13 (add id handling): every add op of an applied batch appends one item
\* to the end of new_tasks, under the op's id when it carries the temporary
\* prefix and under a freshly synthesized temporary id otherwise; quick add
\* and inbox capture append one item under a fresh temporary id; every id in
\* new_tasks carries the prefix afterwards.
AddIdHandling ==
    [][/\ (applyAiOps \/ applyAiOpsWriteFails) => BatchAppended
       /\ (\E title \in QuickTitles, refine \in BOOLEAN :
              saveQuickAdd(title, refine) \/ inboxAdd(title, refine)) => FormAppended]_vars

\* the add op that named t1 created its item under a synthesized id, next to
\* the item of the op that named temp_a
PlainAddGotTempId ==
    /\ Len(NewTasksOf(overlays)) = 2
    /\ Get(NewTasksOf(overlays)[1], "title") = Str("Plan trip")
    /\ Get(NewTasksOf(overlays)[1], "id") = FreshTempId(1)
    /\ Get(NewTasksOf(overlays)[2], "id") = Str("temp_a")

\* a step in which localStorage.setItem threw
WriteFailed ==
    \/ \E id \in ViewIds : deleteItemWriteFails(id)
    \/ applyAiOpsWriteFails
    \/ \E txt \in ImportFiles : importOverlaysWriteFails(txt)
    \/ resetOverlaysWriteFails

\* the record in storage is the overlay in memory (nothing is stored until
\* the first save, when the overlay is the default one)
Persisted ==
    \/ stored = ToJson(overlays)
    \/ stored = Absent /\ overlays = defaultOverlays(IsoTime(0))

Recomputed == base # NoBase => merged = mergeData(base, overlays)

\* C15 (recompute and persist): once the base dataset is loaded, between
\* handlers the merged view is merge(base, overlay) and the persisted record
\* is the overlay.
RecomputeAndPersist ==
    base # NoBase => (merged = mergeData(base, overlays) /\ Persisted)

\* what the code does keep of C15: a step that leaves the record equal to
\* the overlay (no write failed in it) leaves the view recomputed, if both
\* held before
RecomputedWhenPersisted ==
    [][(Persisted /\ Recomputed /\ stored' = ToJson(overlays') /\ base' # NoBase)
          => merged' = mergeData(base', overlays')]_vars

\* C16 (recurrence resolution): in the merged view every recurrence rule of
\* the base dataset carries a boolean enabled flag, the override's when there
\* is one and true otherwise, and is otherwise unchanged.
RecurrenceResolution ==
    base # NoBase =>
        LET rules == Get(base, "recurrence_rules").a
            shown == Get(merged, "recurrence_rules")
        IN  /\ IsArray(shown)
            /\ Len(shown.a) = Len(rules)
            /\ \A i \in 1..Len(rules) :
                  shown.a[i] =
                      Obj(Assign(rules[i].f,
                                 [enabled |-> Bool(Truthy(RuleEnabled(overlays,
                                                              Get(rules[i], "id"))))]))

\* what the code does keep of C16: the rules pass through unchanged, and the
\* flag the recurring panel draws follows the override
RecurrencePassThrough ==
    base # NoBase => Get(merged, "recurrence_rules") = Get(base, "recurrence_rules")

\* C18 (save never throws): a handler whose persistence write fails still
\* runs to its end, so that after it the merged view is merge(base, overlay).
SaveNeverThrows ==
    [][(WriteFailed /\ base # NoBase) => merged' = mergeData(base, overlays')]_vars

OverlayFields ==
    {"version", "updated_at", "deletions", "task_overrides", "new_tasks",
     "recurrence_overrides", "learning"}

\* C19 (export/import round trip): importing the file exportOverlays wrote
\* of the overlay yields an overlay equal to it in version, updated_at,
\* deletions, task_overrides, new_tasks, recurrence_overrides and learning.
RoundTrip ==
    [][importOverlays(exportOverlays(overlays)) =>
          \A k \in OverlayFields : Get(overlays', k) = Get(ToJson(overlays), k)]_vars

\* what the code does keep of C19: every field but updated_at comes back
RoundTripButStamp ==
    [][importOverlays(exportOverlays(overlays)) =>
          /\ \A k \in OverlayFields \ {"updated_at"} :
                Get(overlays', k) = Get(ToJson(overlays), k)
          /\ Get(overlays', "updated_at") = Now]_vars

\* C29 (no dangling tombstone pair): no id in deletions has a patch in
\* task_overrides or an entry in new_tasks, whatever op batches and manual
\* actions ran since the overlay was empty.
NoDanglingTombstone ==
    \A id \in Range(DeletionsOf(overlays)) :
        /\ id.v \notin DOMAIN Overrides(overlays).f
        /\ \A i \in 1..Len(NewTasksOf(overlays)) : Get(NewTasksOf(overlays)[i], "id") # id

\* what the code does keep of C29: the handler or op that deletes an id
\* leaves no patch and no new_tasks entry for it, and the merged view never
\* shows an id that is in deletions
TombstoneHidden ==
    \A id \in Range(DeletionsOf(overlays)) : id \notin ViewIds

\* the step left the overlay and the view that applyOpsArray([o]) leaves
SameAsOp(o) ==
    LET ov == Stamp(ApplyOps([ov |-> overlays, seq |-> idSeq], <<o>>, Now).ov, Now)
    IN  /\ overlays' = ov
        /\ base # NoBase => merged' = mergeData(base, ov)

\* the op that says what toggleComplete(id) does to the item as it is now
ToggleOp(id) ==
    Obj([op |-> Str(IF getStatus(overlays, FindById(AllItems(merged), id)) = "completed"
                    THEN "undo_complete" ELSE "complete"),
         id |-> id])

\* the op that says what saveEdit(id, title) saves
EditOp(id, title) ==
    Obj([op |-> Str("update"), id |-> id,
         fields |-> Obj(FormPatch(FindById(AllItems(merged), id), title))])

IsNewTask(id) ==
    \E i \in 1..Len(NewTasksOf(overlays)) : Get(NewTasksOf(overlays)[i], "id") = id

\* C21 (manual actions are expressible as ops): for every id on screen,
\* locally added tasks included, a manual delete, a manual toggle-complete
\* and a direct edit leave the overlay and the merged view that applying the
\* single op delete, complete / undo_complete, or update with the saved
\* fields leaves.
ManualAsOps ==
    [][\A id \in ViewIds :
          /\ deleteItem(id) => SameAsOp(Obj([op |-> Str("delete"), id |-> id]))
          /\ toggleComplete(id) => SameAsOp(ToggleOp(id))
          /\ \A title \in EditTitles : saveEdit(id, title) => SameAsOp(EditOp(id, title))]_vars

\* what the code does keep of C21: the same, with the direct edit taken on
\* items of tasks.json only
ManualAsOpsBaseItems ==
    [][\A id \in ViewIds :
          /\ deleteItem(id) => SameAsOp(Obj([op |-> Str("delete"), id |-> id]))
          /\ toggleComplete(id) => SameAsOp(ToggleOp(id))
          /\ \A title \in EditTitles :
                (saveEdit(id, title) /\ ~IsNewTask(id)) => SameAsOp(EditOp(id, title))]_vars

\* C23 (no failure leaves a half-done action): while the base dataset is not
\* loaded, a user action is a no-op plus notification: it leaves the overlay
\* and the persisted record as they were.
NoHalfDoneAction ==
    [][(base = NoBase /\ base' = NoBase) => (overlays' = overlays /\ stored' = stored)]_vars

\* C27 (a pending review payload is not lost): a pending payload stays as it
\* is until the user applies or discards it.
PendingPayloadKept ==
    [][(pendingAiPayload # NoPayload /\ pendingAiPayload' # pendingAiPayload)
          => (applyAiOps \/ discardAi)]_vars

---------------------------------------------------------------------------
(* One refine payload applied in two tiers, next to the same payload applied *)
(* as one batch.  probe is the payload, result holds the two overlays.       *)

\* an update that needs review (it moves a date) and also writes the title
UpdTitleDue ==
    OpWith("update", "t1", [title |-> Str("Old plan"), due_date |-> Str("2024-02-01")])

TierOps ==
    {UpdTitle, UpdPriority, UpdBoth, UpdDue, UpdTitleDue, UpdTemp, AddTemp, CompleteT1,
     UndoE1, DeleteT1, DeleteTemp}

TierInputs ==
    {Obj([summary |-> Str("s"), ops |-> Arr(ops)]) : ops \in SeqsUpTo(TierOps, MaxProbeOps)}

InitTier ==
    /\ AppIdle
    /\ probe \in TierInputs
    /\ result = Null

\* aiRefineTaskById applies autoOps when there are any; applyAiOps applies the
\* review ops when there are any; both are taken at one time of day
TieredOverlay(payload, now) ==
    LET split == splitAiOpsForAutoApply(payload)
        st0 == [ov |-> defaultOverlays(IsoTime(0)), seq |-> 0]
        st1 == IF split.autoOps # <<>>
               THEN [ApplyOps(st0, split.autoOps, now) EXCEPT !.ov = Stamp(@, now)]
               ELSE st0
    IN  IF split.reviewOps # <<>>
        THEN Stamp(ApplyOps(st1, split.reviewOps, now).ov, now)
        ELSE st1.ov

\* applyOpsArray(payload.ops)
BatchOverlay(payload, now) ==
    LET st0 == [ov |-> defaultOverlays(IsoTime(0)), seq |-> 0]
    IN  IF Get(payload, "ops").a # <<>>
        THEN Stamp(ApplyOps(st0, Get(payload, "ops").a, now).ov, now)
        ELSE st0.ov

Tier ==
    /\ result = Null
    /\ validatePayload(probe) = "ok"
    /\ result' = [tiered |-> TieredOverlay(probe, IsoTime(1)),
                  batch |-> BatchOverlay(probe, IsoTime(1))]
    /\ UNCHANGED <<appVars, probe>>

SpecTier == InitTier /\ [][Tier]_vars

TierFields == {"deletions", "task_overrides", "new_tasks"}

\* C28 (tiered application preserves the batch result): applying the auto
\* ops of a validated payload at once and its review ops on confirmation
\* leaves the deletions, task_overrides and new_tasks that applying all its
\* ops once in their order leaves.
TieredEqualsBatch ==
    result # Null =>
        \A k \in TierFields : Get(result.tiered, k) = Get(result.batch, k)

\* no op held for review stands before an op applied at once
InTierOrder(payload) ==
    LET ops == Get(payload, "ops").a
        auto(o) == \E j \in 1..Len(splitAiOpsForAutoApply(payload).autoOps) :
                       splitAiOpsForAutoApply(payload).autoOps[j] = o
    IN  \A i, j \in 1..Len(ops) : (i < j /\ auto(ops[j])) => auto(ops[i])

\* what the code does keep of C28: the two results agree whenever the
\* payload already lists its auto ops before its review ops
TieredEqualsBatchInOrder ==
    (result # Null /\ InTierOrder(probe)) =>
        \A k \in TierFields : Get(result.tiered, k) = Get(result.batch, k)

---------------------------------------------------------------------------
(* tryParseJsonFromText on its own: probe is a response text in three parts, *)
(* result what the parser returns for their concatenation.                   *)

\* s.endsWith(p)
EndsWith(s, p) == Len(s) >= Len(p) /\ SubSeq(s, Len(s) - Len(p) + 1, Len(s)) = p

\* the places of character c in s
Places(s, c) == {i \in 1..Len(s) : SubSeq(s, i, i) = c}
Least(S) == CHOOSE i \in S : \A j \in S : i <= j
Greatest(S) == CHOOSE i \in S : \A j \in S : i >= j

\* the payload texts of the responses, and the values JSON.parse gives them
EmptyOpsText == "{\"summary\":\"s\",\"ops\":[]}"
DeleteOpText == "{\"ops\":[{\"op\":\"delete\",\"id\":\"t1\"}]}"
BracesInTextText == "{\"summary\":\"use {x}\",\"ops\":[]}"
PayloadTexts == {EmptyOpsText, DeleteOpText, BracesInTextText}

PayloadOf(text) ==
    CASE text = EmptyOpsText -> Obj([summary |-> Str("s"), ops |-> Arr(<<>>)])
      [] text = DeleteOpText -> Obj([ops |-> Arr(<<DeleteT1>>)])
      [] text = BracesInTextText -> Obj([summary |-> Str("use {x}"), ops |-> Arr(<<>>)])

\* JSON.parse(s) on the texts of this development: a payload text, blanks
\* around it allowed, parses to its value; every other text in play (prose,
\* a payload followed by more text) is rejected
JsonParse(s) ==
    IF Trim(s) \in PayloadTexts
    THEN [ok |-> TRUE, value |-> PayloadOf(Trim(s))]
    ELSE [ok |-> FALSE, value |-> Null]

\* txt.match(/\{[\s\S]*\}/): from the first "{" to the last "}" after it
BraceMatch(txt) ==
    LET opens == Places(txt, "{")
        closes == Places(txt, "}")
    IN  IF opens # {} /\ closes # {} /\ Least(opens) < Greatest(closes)
        THEN [found |-> TRUE, text |-> SubSeq(txt, Least(opens), Greatest(closes))]
        ELSE [found |-> FALSE, text |-> ""]

tryParseJsonFromText(txt) ==
    LET direct == Trim(txt)
        m == BraceMatch(txt)
    IN  IF StartsWith(direct, "{") /\ EndsWith(direct, "}") /\ JsonParse(direct).ok
        THEN JsonParse(direct).value
        ELSE IF m.found /\ JsonParse(m.text).ok
        THEN JsonParse(m.text).value
        ELSE Null

\* what the service may write before and after the payload
TextsBefore == {"", " ", "Sure: ", "Here is the plan you asked for: "}
TextsAfter ==
    {"", " ", " Done.", " Use {id} as key.", " }", " " \o EmptyOpsText,
     " Or: " \o DeleteOpText}

ParseInputs ==
    {[before |-> b, body |-> p, after |-> a] :
        b \in TextsBefore, p \in PayloadTexts, a \in TextsAfter}

ResponseText(r) == r.before \o r.body \o r.after

InitParse ==
    /\ AppIdle
    /\ probe \in ParseInputs
    /\ result = Null

Parse ==
    /\ result = Null
    /\ result' = [parsed |-> tryParseJsonFromText(ResponseText(probe))]
    /\ UNCHANGED <<appVars, probe>>

SpecParse == InitParse /\ [][Parse]_vars

\* C30 (payload extraction): for a response with free text before or after a
\* well-formed payload object, the parser returns that object, the first
\* balanced one of the response, also when the text after it holds further
\* braces or a second object.
PayloadExtraction ==
    result # Null => result.parsed = PayloadOf(probe.body)

\* what the code does keep of C30: the payload is returned when the text
\* after it holds no closing brace
PayloadExtractionNoLaterBrace ==
    (result # Null /\ Places(probe.after, "}") = {}) =>
        result.parsed = PayloadOf(probe.body)

---------------------------------------------------------------------------
(* deferOneDay on its own: probe holds the dates of task t1 in tasks.json    *)
(* and the dates of its patch, result the overlay after deferOneDay("t1").   *)

Digits == <<"0", "1", "2", "3", "4", "5", "6", "7", "8", "9">>
IsDigit(c) == \E k \in 1..10 : Digits[k] = c
DigitValue(c) == (CHOOSE k \in 1..10 : Digits[k] = c) - 1

\* Number(s) for a text of digits; 0 stands for every falsy outcome (the
\* empty text, NaN), which parseISODate does not tell apart
RECURSIVE DigitsValue(_)
DigitsValue(s) ==
    IF Len(s) = 0 THEN 0
    ELSE 10 * DigitsValue(SubSeq(s, 1, Len(s) - 1)) + DigitValue(SubSeq(s, Len(s), Len(s)))
NumberOf(s) ==
    IF Len(s) > 0 /\ \A k \in 1..Len(s) : IsDigit(SubSeq(s, k, k)) THEN DigitsValue(s) ELSE 0

\* a Date at noon, by its calendar day
NoDate == [ok |-> FALSE, y |-> 0, m |-> 0, d |-> 0]
DateOf(y, m, d) == [ok |-> TRUE, y |-> y, m |-> m, d |-> d]

\* parseISODate(s): the first three parts of s.split("-"), as numbers
parseISODate(v) ==
    IF ~Truthy(v) \/ v.t # "string" THEN NoDate
    ELSE LET dashes == Places(v.v, "-")
             p1 == IF dashes = {} THEN Len(v.v) + 1 ELSE Least(dashes)
             rest == {k \in dashes : k > p1}
             p2 == IF rest = {} THEN Len(v.v) + 1 ELSE Least(rest)
             rest2 == {k \in dashes : k > p2}
             p3 == IF rest2 = {} THEN Len(v.v) + 1 ELSE Least(rest2)
             y == NumberOf(SubSeq(v.v, 1, p1 - 1))
             m == NumberOf(SubSeq(v.v, p1 + 1, p2 - 1))
             d == NumberOf(SubSeq(v.v, p2 + 1, p3 - 1))
         IN  IF y = 0 \/ m = 0 \/ d = 0 THEN NoDate ELSE DateOf(y, m, d)

IsLeapYear(y) == (y % 4 = 0 /\ y % 100 # 0) \/ y % 400 = 0
DaysInMonth(y, m) ==
    IF m = 2 THEN (IF IsLeapYear(y) THEN 29 ELSE 28)
    ELSE IF m \in {4, 6, 9, 11} THEN 30 ELSE 31

\* d.setDate(d.getDate() + 1) on a calendar day
NextDay(dt) ==
    IF dt.d < DaysInMonth(dt.y, dt.m) THEN DateOf(dt.y, dt.m, dt.d + 1)
    ELSE IF dt.m < 12 THEN DateOf(dt.y, dt.m + 1, 1)
    ELSE DateOf(dt.y + 1, 1, 1)

\* String(n).padStart(2, "0")
PadStart2(n) == IF n < 10 THEN "0" \o ToString(n) ELSE ToString(n)

isoFromDate(dt) ==
    IF ~dt.ok THEN Str("")
    ELSE Str(ToString(dt.y) \o "-" \o PadStart2(dt.m) \o "-" \o PadStart2(dt.d))

\* deferOneDay(id) up to saveOverlays, for an id that merged.tasks holds
DeferredOverlay(ov, mg, id, today, now) ==
    LET item == FindById(MergedTasks(mg), id)
        ov1 == ensurePatch(ov, id)
        patch == PatchOf(Overrides(ov1), id)
        current == parseISODate(OrElse(Get(patch, "due_date"),
                                OrElse(Get(item, "due_date"),
                                OrElse(Get(patch, "start_date"), Get(item, "start_date")))))
        d == NextDay(IF current.ok THEN current ELSE parseISODate(today))
        before == Obj([start_date |-> Coalesce(Get(patch, "start_date"),
                                               Coalesce(Get(item, "start_date"), Null)),
                       due_date |-> Coalesce(Get(patch, "due_date"),
                                             Coalesce(Get(item, "due_date"), Null))])
        nextISO == isoFromDate(d)
        start1 == IF Truthy(Get(patch, "start_date")) THEN Get(patch, "start_date") ELSE nextISO
        to == [due_date |-> nextISO, start_date |-> start1]
    IN  logMove(AssignPatch(ov1, id, to), id, before, Obj(to), Str("defer_1d"), now)

\* the dates tasks.json gives t1, and those its patch holds (saveEdit stores
\* null for a date left empty)
TaskDates == {Undefined, Str("2024-01-10"), Str("2024-01-31"), Str("2024-02-29")}
PatchDates == {Undefined, Null, Str("2024-01-12"), Str("2023-12-31")}

DeferInputs ==
    {[task |-> ToJson(Obj([id |-> Str("t1"), title |-> Str("Draft report"),
                           start_date |-> ts, due_date |-> td])),
      patch |-> Obj([k \in {j \in {"start_date", "due_date"} :
                               (IF j = "start_date" THEN ps ELSE pd) # Undefined} |->
                        IF k = "start_date" THEN ps ELSE pd])] :
        ts \in TaskDates, td \in TaskDates, ps \in PatchDates, pd \in PatchDates}

DeferBase(r) == Obj([tasks |-> Arr(<<r.task>>), events |-> Arr(<<>>)])
DeferOverlay(r) ==
    IF r.patch.f = EmptyMap THEN defaultOverlays(IsoTime(0))
    ELSE SetPatch(defaultOverlays(IsoTime(0)), Str("t1"), r.patch)

InitDefer ==
    /\ AppIdle
    /\ probe \in DeferInputs
    /\ result = Null

Defer ==
    /\ result = Null
    /\ result' = Stamp(DeferredOverlay(DeferOverlay(probe),
                                       mergeData(DeferBase(probe), DeferOverlay(probe)),
                                       Str("t1"), Today, IsoTime(1)),
                       IsoTime(1))
    /\ UNCHANGED <<appVars, probe>>

SpecDefer == InitDefer /\ [][Defer]_vars

\* the effective dates of t1 before and after the deferral, as the merged
\* view shows them
DeferItemBefore == FindById(MergedTasks(mergeData(DeferBase(probe), DeferOverlay(probe))), Str("t1"))
DeferItemAfter == FindById(MergedTasks(mergeData(DeferBase(probe), result)), Str("t1"))

HasDate(v) == parseISODate(v).ok
DateBefore(a, b) ==
    \/ a.y < b.y
    \/ a.y = b.y /\ a.m < b.m
    \/ a.y = b.y /\ a.m = b.m /\ a.d < b.d
PlusOneDay(v) == isoFromDate(NextDay(parseISODate(v)))

\* due was moved by a day and start kept, or the other way round
DueMoved(s0, d0, s1, d1) == d1 = PlusOneDay(d0) /\ s1 = s0
StartMoved(s0, d0, s1, d1) == s1 = PlusOneDay(s0) /\ d1 = d0

\* C22 (defer by one day): for a task with a start date, a due date or both,
\* defer-by-one-day moves the later of its effective start and due dates by
\* one calendar day, leaves the effective value of the other one unchanged
\* and appends one entry to the move log.
DeferLaterDate ==
    LET s0 == Get(DeferItemBefore, "start_date")
        d0 == Get(DeferItemBefore, "due_date")
        s1 == Get(DeferItemAfter, "start_date")
        d1 == Get(DeferItemAfter, "due_date")
    IN  (result # Null /\ (HasDate(s0) \/ HasDate(d0))) =>
            /\ Len(Get(Learning(result), "move_log").a) = 1
            /\ IF ~HasDate(s0) THEN DueMoved(s0, d0, s1, d1)
               ELSE IF ~HasDate(d0) THEN StartMoved(s0, d0, s1, d1)
               ELSE IF DateBefore(parseISODate(s0), parseISODate(d0))
               THEN DueMoved(s0, d0, s1, d1)
               ELSE IF DateBefore(parseISODate(d0), parseISODate(s0))
               THEN StartMoved(s0, d0, s1, d1)
               ELSE DueMoved(s0, d0, s1, d1) \/ StartMoved(s0, d0, s1, d1)

\* what the code does keep of C22: the due date becomes the day after the
\* effective due date (after the start date when there is no due date, after
\* today when there is neither); the start date keeps the value its patch
\* holds and otherwise follows the new due date; one entry is logged
DeferDueDate ==
    LET s0 == Get(DeferItemBefore, "start_date")
        d0 == Get(DeferItemBefore, "due_date")
        s1 == Get(DeferItemAfter, "start_date")
        d1 == Get(DeferItemAfter, "due_date")
    IN  result # Null =>
            /\ Len(Get(Learning(result), "move_log").a) = 1
            /\ d1 = PlusOneDay(IF HasDate(d0) THEN d0 ELSE IF HasDate(s0) THEN s0 ELSE Today)
            /\ s1 = IF HasDate(Get(probe.patch, "start_date"))
                    THEN Get(probe.patch, "start_date") ELSE d1

---------------------------------------------------------------------------
(* The three forms that take a title, with titles that may be blank *)

FormTitles == {"", "  ", "Buy milk"}
EditFormTitles == {"", "  ", "Edited"}
BlankTitles == {t \in FormTitles \cup EditFormTitles : Trim(t) = ""}

\* saveQuickAdd() from its first line: a blank title ends it with a toast
submitQuickAdd(title, refine) ==
    IF Trim(title) = ""
    THEN /\ toastMsg' = "Title required"
         /\ UNCHANGED <<probe, result, base, bootPc, overlays, merged, stored, pendingAiPayload,
                        inflight, aiEnabled, idSeq, steps>>
    ELSE saveQuickAdd(title, refine)

\* the click handler of btnInboxAdd from its first line: a blank text ends it
submitInbox(title, refine) ==
    IF Trim(title) = ""
    THEN UNCHANGED vars
    ELSE inboxAdd(title, refine)

NextForms ==
    \/ \E b \in Bases : LoadBaseOk(b)
    \/ LoadBaseFail
    \/ \E title \in FormTitles, refine \in BOOLEAN : submitQuickAdd(title, refine)
    \/ \E title \in FormTitles, refine \in BOOLEAN : submitInbox(title, refine)
    \/ \E id \in ViewIds, title \in EditFormTitles : saveEdit(id, title)
    \/ \E id \in ViewIds : deleteItem(id)
    \/ \E resp \in StoreResponses : RefineResolve(resp)

SpecForms == Init /\ [][NextForms]_vars

\* C24 (empty title is rejected before mutation): a quick add, an inbox
\* capture or a direct edit submitted with an empty or whitespace-only title
\* leaves the overlay, the persisted record and the merged view unchanged.
EmptyTitleRejected ==
    [][(\E title \in BlankTitles :
           \/ \E refine \in BOOLEAN : submitQuickAdd(title, refine)
           \/ \E refine \in BOOLEAN : submitInbox(title, refine)
           \/ \E id \in ViewIds : saveEdit(id, title))
          => (overlays' = overlays /\ stored' = stored /\ merged' = merged)]_vars

\* what the code does keep of C24: quick add and inbox capture reject a
\* blank title before any mutation
EmptyTitleRejectedOnAdd ==
    [][(\E title \in BlankTitles :
           \/ \E refine \in BOOLEAN : submitQuickAdd(title, refine)
           \/ \E refine \in BOOLEAN : submitInbox(title, refine))
          => (overlays' = overlays /\ stored' = stored /\ merged' = merged)]_vars

---------------------------------------------------------------------------
(* Two refine requests in flight at once.  The continuation of a request     *)
(* reads only its response, so the requests in flight are counted and any    *)
(* of them may be the one that resolves.                                     *)

MaxRace == 2

\* aiRefineTaskById(id) up to its first await, with up to MaxRace calls out
refineRequest(id) ==
    /\ id \in ViewIds
    /\ InFlight(inflight) < MaxRace
    /\ LET h == RefineHead(id, merged, overlays)
       IN  /\ toastMsg' = IF h.toast = "" THEN toastMsg ELSE h.toast
           /\ inflight' = IF h.sent THEN Sent(inflight, "refine")
                          ELSE inflight
    /\ UNCHANGED <<probe, result, base, bootPc, overlays, merged, stored, pendingAiPayload, aiEnabled,
                   idSeq, steps>>

RaceOpSeqs == {<<UpdTitle>>, <<UpdBoth>>, <<UpdTitle, UpdDue>>}
RaceResponses ==
    {[ok |-> FALSE, payload |-> Null]}
        \cup {[ok |-> TRUE, payload |-> Obj([summary |-> Str("s"), ops |-> Arr(ops)])] :
                 ops \in RaceOpSeqs}

NextRace ==
    \/ \E b \in Bases : LoadBaseOk(b)
    \/ LoadBaseFail
    \/ \E id \in ViewIds : refineRequest(id)
    \/ \E resp \in RaceResponses : RefineResolve(resp)
    \/ \E id \in ViewIds : deleteItem(id)
    \/ resetOverlays
    \/ applyAiOps
    \/ discardAi

SpecRace == Init /\ [][NextRace]_vars

\* the ops of a response that the policy lets through without review, and
\* those it holds back
AutoOpsOf(resp) == SelectSeq(OpsOf(resp.payload), AutoEligible)
ReviewOpsOf(resp) == SelectSeq(OpsOf(resp.payload), NotAutoEligible)
OpsForId(ops, id) == LET ForIt(o) == Get(o, "id") = id IN SelectSeq(ops, ForIt)
IdsOf(ops) == {Get(ops[i], "id") : i \in 1..Len(ops)}

\* the step is the continuation of a refine request whose response resp
\* carried a valid payload
ResolvedWith(resp) == RefineResolve(resp) /\ ~runOps(resp).threw

\* C25 (responses apply in resolution order): the auto-appliable updates of
\* a refine response are written to the overlay in the step in which that
\* response resolves, over whatever the patch held before, so that of two
\* responses writing one field of one id the one that resolved last decides.
ResolutionOrder ==
    [][\A resp \in RaceResponses :
          ResolvedWith(resp) =>
              \A id \in IdsOf(AutoOpsOf(resp)) :
                  PatchMap(overlays', id)
                      = AccumulatedPatch(PatchMap(overlays, id), OpsForId(AutoOpsOf(resp), id))]_vars

\* both responses resolved, the one with title and priority first: the
\* title is that of the response that resolved last
LastResolvedWins ==
    /\ inflight.refine = 0
    /\ steps = 2
    /\ PatchMap(overlays, Str("t1")) = [title |-> Str("Draft Q1 report"), priority |-> Num(3)]

PatchAfterReset ==
    /\ steps = 2
    /\ Get(overlays, "updated_at") = IsoTime(2)
    /\ DeletionsOf(overlays) = <<>>
    /\ Len(Get(Learning(overlays), "completion_log").a) = 0
    /\ PatchMap(overlays, Str("t1")) = [title |-> Str("Report"), priority |-> Num(3)]
    /\ toastMsg = "Refined"

=============================================================================
